---------------------------- MODULE Spec2Model ----------------------------
(***************************************************************************)
(* A model of the two voice agents of the repository.                      *)
(*                                                                         *)
(*  - MedFlow (src/MedFlow/bot.py): the patient intake dialogue.  The      *)
(*    IntakeProcessor handlers swap the tool list of the shared            *)
(*    conversation context and append the instruction of the next step.    *)
(*    Specification Spec.                                                  *)
(*  - The session life cycle of MedFlow (bot.py main) and of VoiceFlow     *)
(*    (src/VoiceFlow/src/core/voice_assistant.py run_voice_assistant):     *)
(*    connect, disconnect, cancellation and teardown of the pipeline.      *)
(*    Specifications SessionSpec and FairSessionSpec.                      *)
(***************************************************************************)
EXTENDS Naturals, Sequences, FiniteSets, TLC

VARIABLES
    tools,      \* context: names of the tool schemas installed (set_tools)
    messages,   \* context: the ordered conversation messages
    call,       \* the function call being handled, with its position
    llmQueue,   \* context frames queued for the language model stage
    handed,     \* per queued frame: the context as it was when handed over
    gen,        \* the context the generation request in flight has read
    joined,     \* on_first_participant_joined has run
    turns,      \* caller turns aggregated so far
    last        \* how the function call handled last ended

intakeVars ==
    <<tools, messages, call, llmQueue, handed, gen, joined, turns, last>>

VARIABLES
    app,             \* the application the session belongs to
    transport,       \* "idle", "connected" or "disconnected"
    events,          \* transport events whose handler has not finished yet
    cancelRequested, \* task.cancel() has been called
    cancelAt,        \* number of stages the cancel frame has stopped
    inbox,           \* frames queued at each stage
    fifo,            \* per stage: the numbers of the frames queued, oldest first
    held,            \* per stage: the frame its external call works on (0: none)
    delivered,       \* per stage: the frame the stage took last (0: none yet)
    produced,        \* frames the pipeline has been given so far
    calling,         \* per stage: "no", "yes" (external call in flight), "hung"
    speaking,        \* an utterance has started and not ended
    recording,       \* the audio buffer is recording
    buffered,        \* audio held by the audio buffer, in recording order
    files,           \* recordings written by save_audio
    runner,          \* "running" or "returned": runner.run(task)
    handle           \* "open" or "released": the transport handle

sessionVars ==
    <<app, transport, events, cancelRequested, cancelAt, inbox, fifo, held,
      delivered, produced, calling, speaking, recording, buffered, files,
      runner, handle>>

VARIABLES
    cpc,             \* test client: how far run_client / on_connected has come
    serializer,      \* test client: the identifiers its serializer was given
    sent,            \* test client: every message it has sent, in order
    toServer,        \* messages on the socket the server has not read yet
    spc,             \* server: how far websocket_endpoint has come
    consumed,        \* messages the endpoint itself has read
    starts,          \* calls of run_voice_assistant for the connection
    session,         \* the identifiers the pipeline was started with
    toClient,        \* audio messages on their way to the test client
    heard            \* audio messages the test client has received

wireVars ==
    <<cpc, serializer, sent, toServer, spc, consumed, starts, session,
      toClient, heard>>

VARIABLES
    appOf,           \* per session: the application it runs
    locals,          \* per session: the objects its function created (0: none)
    contexts,        \* the context objects: messages and tools
    audiobuffers,    \* the audio buffer objects: recording flag and audio
    tasks,           \* per session: "none", "running" or "cancelled"
    allocated,       \* objects of each kind created so far
    actor            \* the session that took the last step

peerVars ==
    <<appOf, locals, contexts, audiobuffers, tasks, allocated, actor>>

VARIABLES
    side,            \* whose transport the detector belongs to
    libraryStop,     \* the stop time the analyzer uses when it is given none
    vadState,        \* "quiet" or "speaking"
    silence,         \* trailing silence of the utterance, in tenths of a second
    markers,         \* the utterance markers emitted so far, in order
    chunks           \* audio chunks analysed so far

vadVars == <<side, libraryStop, vadState, silence, markers, chunks>>

VARIABLES
    bot_procs,       \* server.py bot_procs: per process id, the entry or none
    procs,           \* the bot processes spawned so far, in order
    reqs,            \* per start-session request: position, room url, token
    server           \* the server: running or down, and its last status answer

registryVars == <<bot_procs, procs, reqs, server>>

VARIABLES
    config           \* runner.py configure: its inputs, position and result

configVars == <<config>>

VARIABLES
    clients,         \* client.py run_client: per test client, its session
    mainpc           \* client.py main: its position

clientVars == <<clients, mainpc>>

VARIABLES
    recs,            \* per recorded session: its peer, its audio, its file
    clock            \* the wall clock, in half seconds

recordingVars == <<recs, clock>>

\* The variables of the programs around a session.
aroundVars == <<configVars, clientVars, recordingVars>>

\* The variables of the intake server and of the programs around a session.
extraVars == <<registryVars, aroundVars>>

\* The variables outside the intake dialogue and the session life cycle.
otherVars == <<wireVars, peerVars, vadVars, extraVars>>

\* The variables outside the socket handshake.
notWire == <<intakeVars, sessionVars, peerVars, vadVars, extraVars>>

\* The variables outside the concurrent sessions.
notPeers == <<intakeVars, sessionVars, wireVars, vadVars, extraVars>>

\* The variables outside the boundary detector.
notVad == <<intakeVars, sessionVars, wireVars, peerVars, extraVars>>

\* The variables outside the intake server.
notRegistry == <<intakeVars, sessionVars, wireVars, peerVars, vadVars, aroundVars>>

\* The variables outside the configuration of the bot process.
notConfig == <<intakeVars, sessionVars, wireVars, peerVars, vadVars, registryVars,
               clientVars, recordingVars>>

\* The variables outside the test clients.
notClients == <<intakeVars, sessionVars, wireVars, peerVars, vadVars, registryVars,
                configVars, recordingVars>>

\* The variables outside the recordings.
notRecordings == <<intakeVars, sessionVars, wireVars, peerVars, vadVars,
                   registryVars, configVars, clientVars>>

---------------------------------------------------------------------------
(* Bounds of the model. *)

\* Most messages a context holds.
MaxMessages == 6

\* Most caller turns of a session.
MaxTurns == 1

\* Most context frames queued for the language model stage.
MaxQueue == 2

\* Most frames queued at one stage of a pipeline.
QueueCap == 2

\* Most frames inside a pipeline at once.
MaxFrames == 2

\* Most audio chunks the audio buffer holds.
MaxAudio == 2

\* Most frames the pipeline of a session is given.
MaxIds == 3

\* Number of different stream and call identifiers.
MaxSids == 2

\* Most audio messages sent in one direction over a socket.
MaxMedia == 3

\* Most messages one of two concurrent sessions adds to its context.
MaxAppends == 2

\* Most audio chunks a boundary detector is given.
MaxChunks == 6

\* Most start-session requests the intake server is sent.
MaxRequests == 2

\* Number of different room URLs the room service hands out.
MaxRooms == 1

\* Number of different process ids the system hands out.
MaxPids == 2

\* Number of test clients main runs at once (option -c).
MaxClients == 2

\* Most frames that enter the pipeline of one test client.
MaxPending == 2

\* Number of sessions that record.
MaxRecorded == 2

\* Number of hosts that connect to the server, and of runs of the test
\* client.
MaxOwners == 2

\* Number of different ports of a peer, and of clients in a run.
MaxNumbers == 2

\* Half seconds the wall clock advances.
MaxTicks == 3

---------------------------------------------------------------------------
(* Data of the intake dialogue, src/MedFlow/bot.py. *)

\* The names main() registers with the language model service; a function
\* call is dispatched to its handler by name.
RegisteredFunctions ==
    {"verify_birthday", "list_prescriptions", "list_allergies",
     "list_conditions", "list_visit_reasons"}

\* The birthday verify_birthday compares against.
ReferenceBirthday == "1983-01-01"

\* Birthdays a call may carry: the reference and a wrong one.
Birthdays == {"1983-01-01", "1990-05-05"}

\* The argument object of a call that carries no field at all.
EmptyArgs == [k \in {} |-> ""]

\* The item lists a collection call may carry (opaque to the handlers).
ItemLists == {"items"}

\* The key of the one parameter the schema of a tool declares.
ParamOf(name) ==
    CASE name = "verify_birthday" -> "birthday"
      [] name = "list_prescriptions" -> "prescriptions"
      [] name = "list_allergies" -> "allergies"
      [] name = "list_conditions" -> "conditions"
      [] name = "list_visit_reasons" -> "visit_reasons"

\* The argument objects the language model may send for a tool: the schemas
\* declare no required property, so the field may be missing.
ArgsOf(name) ==
    IF name = "verify_birthday"
    THEN {[k \in {"birthday"} |-> b] : b \in Birthdays} \cup {EmptyArgs}
    ELSE {[k \in {ParamOf(name)} |-> l] : l \in ItemLists} \cup {EmptyArgs}

\* Well-formed arguments carry the parameter of the tool's schema.
WellFormed(name, args) == ParamOf(name) \in DOMAIN args

SystemMessage(c) == [role |-> "system", content |-> c]

\* The system messages of the script, by the step they instruct.
IntroMessage == SystemMessage("intro_call_verify_birthday")
PrescriptionsMessage == SystemMessage("ask_prescriptions_call_list_prescriptions")
RetryMessage == SystemMessage("birthday_incorrect_call_verify_birthday")
AllergiesMessage == SystemMessage("ask_allergies_call_list_allergies")
ConditionsMessage == SystemMessage("ask_conditions_call_list_conditions")
VisitReasonsMessage == SystemMessage("ask_visit_reasons_call_list_visit_reasons")
ConcludeMessage == SystemMessage("thank_and_conclude")

\* A function call: its name and arguments, the position of its handler
\* (pc), the value its handler passes to the result callback (result, or
\* none for None), how often the result callback has run and how often
\* save_data has logged its arguments.
NoCall ==
    [name |-> "none", args |-> EmptyArgs, pc |-> "none",
     result |-> <<>>, none |-> FALSE, callbacks |-> 0, logged |-> 0]

NewCall(name, args) ==
    [name |-> name, args |-> args, pc |-> "start",
     result |-> <<>>, none |-> FALSE, callbacks |-> 0, logged |-> 0]

\* How a call ended: its name, "returned" or "raised", and how often its
\* result callback ran.
Ended(c, how, n) == [name |-> c.name, pc |-> how, callbacks |-> n]

NoLast == [name |-> "none", pc |-> "none", callbacks |-> 0]

\* No generation request is in flight.  A request in flight has read the tool
\* list and the first len messages of the context.
NoGen == [active |-> FALSE, tools |-> {}, len |-> 0]

\* A name no handler is registered for.
UnknownFunction == "unknown_function"

\* The function calls a completion may carry.  The handler of a call is looked
\* up by the name the completion gives, so any name may arrive.
Requests ==
    UNION {{[name |-> n, args |-> a] : a \in ArgsOf(n)} : n \in RegisteredFunctions}
    \cup {[name |-> UnknownFunction, args |-> EmptyArgs]}

---------------------------------------------------------------------------
(* The dialogue state.  The code keeps no state field: the step of the     *)
(* dialogue is the tool the context exposes.                               *)

DialogueStates ==
    <<"AwaitingIdentity", "CollectingPrescriptions", "CollectingAllergies",
      "CollectingConditions", "CollectingVisitReasons", "Complete">>

\* The tool each state exposes (none in Complete).
ToolOfState(s) ==
    CASE s = "AwaitingIdentity" -> {"verify_birthday"}
      [] s = "CollectingPrescriptions" -> {"list_prescriptions"}
      [] s = "CollectingAllergies" -> {"list_allergies"}
      [] s = "CollectingConditions" -> {"list_conditions"}
      [] s = "CollectingVisitReasons" -> {"list_visit_reasons"}
      [] s = "Complete" -> {}

StateOfTools(ts) ==
    IF \E i \in 1..Len(DialogueStates) : ToolOfState(DialogueStates[i]) = ts
    THEN DialogueStates[CHOOSE i \in 1..Len(DialogueStates) :
                            ToolOfState(DialogueStates[i]) = ts]
    ELSE "Undefined"

DialogueState == StateOfTools(tools)

\* The position of a state in the script.
Rank(s) == CHOOSE i \in 1..Len(DialogueStates) : DialogueStates[i] = s

---------------------------------------------------------------------------
(* The conversation context shared by the aggregators, the language model  *)
(* stage and the handlers.                                                 *)

\* set_tools that adds the tools to the list instead of replacing it.
set_tools_Merges(ts) == tools' = tools \cup ts

\* context.set_tools(ts): the tool list is replaced.
set_tools(ts) == tools' = ts

\* context.add_message(m): m is appended.
add_message_Prepends(m) == messages' = <<m>> \o messages

add_message(m) == messages' = Append(messages, m)

UserMessage == [role |-> "user", content |-> "utterance"]
AssistantMessage == [role |-> "assistant", content |-> "reply"]

\* What a reader of the context sees of it: the tool list and how many
\* messages it holds (messages are only ever appended).
ViewOf(ts, ms) == [tools |-> ts, len |-> Len(ms)]

\* OpenAILLMContextFrame(context): a frame that refers to the context is put
\* in the queue of the language model stage; ts and ms are the context at
\* that moment.
QueueContextFrame(ts, ms) ==
    /\ llmQueue' = llmQueue + 1
    /\ handed' = Append(handed, ViewOf(ts, ms))

\* Messages the handlers of calls in flight may still append.
Reserved == IF call = NoCall THEN 0 ELSE 1

---------------------------------------------------------------------------
(* IntakeProcessor, src/MedFlow/bot.py.  A handler runs without            *)
(* interruption up to an await; each await is a step of its own.           *)

\* __init__ without the call of set_tools.
IntakeInit_NoTools ==
    /\ messages = <<IntroMessage>>
    /\ tools = {}

\* __init__: the persona message and the verify_birthday tool.
IntakeInit ==
    /\ messages = <<IntroMessage>>
    /\ tools = {"verify_birthday"}

\* verify_birthday with the next tool installed on a mismatch as well.
verify_birthday_AdvancesOnMismatch ==
    /\ call.pc = "start"
    /\ call.name = "verify_birthday"
    /\ IF "birthday" \notin DOMAIN call.args
       THEN /\ last' = Ended(call, "raised", call.callbacks)
            /\ call' = NoCall
            /\ UNCHANGED <<tools, messages>>
       ELSE /\ set_tools({"list_prescriptions"})
            /\ call' = [call EXCEPT !.pc = "result_callback",
                                    !.result =
                                        IF call.args["birthday"] = ReferenceBirthday
                                        THEN <<PrescriptionsMessage>>
                                        ELSE <<RetryMessage>>]
            /\ UNCHANGED <<messages, last>>
    /\ UNCHANGED <<llmQueue, handed, gen, joined, turns>>
    /\ UNCHANGED <<sessionVars, otherVars>>

\* verify_birthday with the thanks and the question as two messages.
verify_birthday_TwoMessages ==
    /\ call.pc = "start"
    /\ call.name = "verify_birthday"
    /\ IF "birthday" \notin DOMAIN call.args
       THEN /\ last' = Ended(call, "raised", call.callbacks)
            /\ call' = NoCall
            /\ UNCHANGED <<tools, messages>>
       ELSE IF call.args["birthday"] = ReferenceBirthday
            THEN /\ set_tools({"list_prescriptions"})
                 /\ call' = [call EXCEPT !.pc = "result_callback",
                                         !.result = <<SystemMessage("thanks"),
                                                      PrescriptionsMessage>>]
                 /\ UNCHANGED <<messages, last>>
            ELSE /\ call' = [call EXCEPT !.pc = "result_callback",
                                         !.result = <<RetryMessage>>]
                 /\ UNCHANGED <<tools, messages, last>>
    /\ UNCHANGED <<llmQueue, handed, gen, joined, turns>>
    /\ UNCHANGED <<sessionVars, otherVars>>

\* verify_birthday with a mismatch raised as an error of the call.
verify_birthday_RaisesOnMismatch ==
    /\ call.pc = "start"
    /\ call.name = "verify_birthday"
    /\ IF "birthday" \notin DOMAIN call.args
       THEN /\ last' = Ended(call, "raised", call.callbacks)
            /\ call' = NoCall
            /\ UNCHANGED <<tools, messages>>
       ELSE IF call.args["birthday"] = ReferenceBirthday
            THEN /\ set_tools({"list_prescriptions"})
                 /\ call' = [call EXCEPT !.pc = "result_callback",
                                         !.result = <<PrescriptionsMessage>>]
                 /\ UNCHANGED <<messages, last>>
            ELSE /\ last' = Ended(call, "raised", call.callbacks)
                 /\ call' = NoCall
                 /\ UNCHANGED <<tools, messages>>
    /\ UNCHANGED <<llmQueue, handed, gen, joined, turns>>
    /\ UNCHANGED <<sessionVars, otherVars>>

\* verify_birthday up to its await of the result callback.
verify_birthday ==
    /\ call.pc = "start"
    /\ call.name = "verify_birthday"
    /\ IF "birthday" \notin DOMAIN call.args
       THEN \* params.arguments["birthday"] raises KeyError
            /\ last' = Ended(call, "raised", call.callbacks)
            /\ call' = NoCall
            /\ UNCHANGED <<tools, messages>>
       ELSE IF call.args["birthday"] = ReferenceBirthday
            THEN /\ set_tools({"list_prescriptions"})
                 /\ call' = [call EXCEPT !.pc = "result_callback",
                                         !.result = <<PrescriptionsMessage>>]
                 /\ UNCHANGED <<messages, last>>
            ELSE /\ call' = [call EXCEPT !.pc = "result_callback",
                                         !.result = <<RetryMessage>>]
                 /\ UNCHANGED <<tools, messages, last>>
    /\ UNCHANGED <<llmQueue, handed, gen, joined, turns>>
    /\ UNCHANGED <<sessionVars, otherVars>>

\* A collection handler up to its first await: the next tool (or none) is
\* installed and the next instruction appended, whatever the arguments are.
Collect(nextTools, instruction) ==
    /\ call.pc = "start"
    /\ set_tools(nextTools)
    /\ add_message(instruction)
    /\ call' = [call EXCEPT !.pc = "queue_frame"]
    /\ UNCHANGED <<llmQueue, handed, gen, joined, turns, last>>
    /\ UNCHANGED <<sessionVars, otherVars>>

list_prescriptions ==
    /\ call.name = "list_prescriptions"
    /\ Collect({"list_allergies"}, AllergiesMessage)

\* list_allergies with the tool of the step after the next installed.
list_allergies_SkipsConditions ==
    /\ call.name = "list_allergies"
    /\ Collect({"list_visit_reasons"}, ConditionsMessage)

list_allergies ==
    /\ call.name = "list_allergies"
    /\ Collect({"list_conditions"}, ConditionsMessage)

list_conditions ==
    /\ call.name = "list_conditions"
    /\ Collect({"list_visit_reasons"}, VisitReasonsMessage)

list_visit_reasons ==
    /\ call.name = "list_visit_reasons"
    /\ Collect({}, ConcludeMessage)

\* await params.llm.queue_frame(OpenAILLMContextFrame(params.context)):
\* a frame referring to the shared context is queued for the model.
queue_frame ==
    /\ call.pc = "queue_frame"
    /\ llmQueue < MaxQueue
    /\ QueueContextFrame(tools, messages)
    /\ call' = [call EXCEPT !.pc = "save_data"]
    /\ UNCHANGED <<tools, messages, gen, joined, turns, last>>
    /\ UNCHANGED <<sessionVars, otherVars>>

\* save_data with the saved data handed to the result callback.
save_data_ReturnsArgs ==
    /\ call.pc = "save_data"
    /\ call' = [call EXCEPT !.pc = "result_callback", !.logged = @ + 1,
                            !.none = FALSE,
                            !.result = <<SystemMessage("saved_data")>>]
    /\ UNCHANGED <<tools, messages, llmQueue, handed, gen, joined, turns, last>>
    /\ UNCHANGED <<sessionVars, otherVars>>

\* save_data: the arguments are logged and the result callback is awaited
\* with None.
save_data ==
    /\ call.pc = "save_data"
    /\ call' = [call EXCEPT !.pc = "result_callback", !.logged = @ + 1,
                            !.none = TRUE, !.result = <<>>]
    /\ UNCHANGED <<tools, messages, llmQueue, handed, gen, joined, turns, last>>
    /\ UNCHANGED <<sessionVars, otherVars>>

\* save_data fails: logging the data, or the awaited callback, raises.  No
\* handler catches the exception, so it leaves the handler.
save_data_raises ==
    /\ call.pc = "save_data"
    /\ last' = Ended(call, "raised", call.callbacks)
    /\ call' = NoCall
    /\ UNCHANGED <<tools, messages, llmQueue, handed, gen, joined, turns>>
    /\ UNCHANGED <<sessionVars, otherVars>>

\* The awaited result callback completes.  None adds nothing to the context
\* and does not prompt the model again; a list of messages is added to the
\* context and the model is prompted with it.
result_callback ==
    /\ call.pc = "result_callback"
    /\ IF call.none
       THEN UNCHANGED <<messages, llmQueue, handed>>
       ELSE /\ llmQueue < MaxQueue
            /\ messages' = messages \o call.result
            /\ QueueContextFrame(tools, messages \o call.result)
    /\ last' = Ended(call, "returned", call.callbacks + 1)
    /\ call' = NoCall
    /\ UNCHANGED <<tools, gen, joined, turns>>
    /\ UNCHANGED <<sessionVars, otherVars>>

\* A step of a handler.
HandlerStep ==
    \/ verify_birthday
    \/ list_prescriptions
    \/ list_allergies
    \/ list_conditions
    \/ list_visit_reasons
    \/ queue_frame
    \/ save_data
    \/ save_data_raises
    \/ result_callback

---------------------------------------------------------------------------
(* The pipeline around the handlers, src/MedFlow/bot.py main.              *)

\* on_first_participant_joined with the tool list emptied before the frame
\* is queued.
on_first_participant_joined_ResetsTools ==
    /\ ~joined
    /\ joined' = TRUE
    /\ set_tools({})
    /\ QueueContextFrame({}, messages)
    /\ UNCHANGED <<messages, call, gen, turns, last>>
    /\ UNCHANGED <<sessionVars, otherVars>>

\* on_first_participant_joined: the context frame that opens the dialogue.
on_first_participant_joined ==
    /\ ~joined
    /\ joined' = TRUE
    /\ QueueContextFrame(tools, messages)
    /\ UNCHANGED <<tools, messages, call, gen, turns, last>>
    /\ UNCHANGED <<sessionVars, otherVars>>

\* context_aggregator.user(): a caller turn is appended and the model is
\* prompted.
UserTurn ==
    /\ joined
    /\ turns < MaxTurns
    /\ Len(messages) + Reserved < MaxMessages
    /\ llmQueue < MaxQueue
    /\ add_message(UserMessage)
    /\ QueueContextFrame(tools, Append(messages, UserMessage))
    /\ turns' = turns + 1
    /\ UNCHANGED <<tools, call, gen, joined, last>>
    /\ UNCHANGED <<sessionVars, otherVars>>

\* llm: the stage takes a context frame and sends the context it refers to,
\* as it is now, to the language model.
StartGeneration ==
    /\ ~gen.active
    /\ llmQueue > 0
    /\ llmQueue' = llmQueue - 1
    /\ handed' = Tail(handed)
    /\ gen' = [active |-> TRUE, tools |-> tools, len |-> Len(messages)]
    /\ UNCHANGED <<tools, messages, call, joined, turns, last>>
    /\ UNCHANGED <<sessionVars, otherVars>>

\* The completion is text: context_aggregator.assistant() appends the reply.
GenerationText ==
    /\ gen.active
    /\ Len(messages) + Reserved < MaxMessages
    /\ add_message(AssistantMessage)
    /\ gen' = NoGen
    /\ UNCHANGED <<tools, llmQueue, handed, call, joined, turns, last>>
    /\ UNCHANGED <<sessionVars, otherVars>>

\* The completion is a function call.  Only a request that carried tools can
\* be answered with a call.  The handler registered under the name of the
\* call, if any, is started; a call of a name without a handler is dropped.
GenerationToolCall ==
    /\ gen.active
    /\ gen.tools # {}
    /\ call = NoCall
    /\ Len(messages) < MaxMessages
    /\ \E r \in Requests :
         IF r.name \in RegisteredFunctions
         THEN call' = NewCall(r.name, r.args)
         ELSE call' = NoCall
    /\ gen' = NoGen
    /\ UNCHANGED <<tools, messages, llmQueue, handed, joined, turns, last>>
    /\ UNCHANGED <<sessionVars, otherVars>>

---------------------------------------------------------------------------
(* The session life cycle: bot.py main and voice_assistant.py              *)
(* run_voice_assistant.  The pipeline engine, the transport and the audio  *)
(* buffer are the library's; they are modelled by their contract.          *)

Apps == {"MedFlow", "VoiceFlow"}

\* The stage list each application gives its Pipeline, in order.
\* Both pipelines with the assistant aggregator placed before synthesis.
Stages_AggregatorBeforeTts(a) ==
    IF a = "MedFlow"
    THEN <<"input", "user_aggregator", "llm", "assistant_aggregator",
           "frame_logger", "tts", "output">>
    ELSE <<"input", "stt", "user_aggregator", "llm", "assistant_aggregator",
           "tts", "output", "audiobuffer">>

\* VoiceFlow with the audio buffer placed before the output transport.
Stages_BufferBeforeOutput(a) ==
    IF a = "MedFlow"
    THEN <<"input", "user_aggregator", "llm", "frame_logger", "tts",
           "output", "assistant_aggregator">>
    ELSE <<"input", "stt", "user_aggregator", "llm", "tts", "audiobuffer",
           "output", "assistant_aggregator">>

Stages(a) ==
    IF a = "MedFlow"
    THEN <<"input", "user_aggregator", "llm", "frame_logger", "tts",
           "output", "assistant_aggregator">>
    ELSE <<"input", "stt", "user_aggregator", "llm", "tts", "output",
           "audiobuffer", "assistant_aggregator">>

NumStages == Len(Stages(app))

\* The place of a stage in the stage list of the running application.
Index(stage) == CHOOSE i \in 1..NumStages : Stages(app)[i] = stage

\* The stages that call an external service (the language model stage also
\* awaits the tool handlers).
ExternalStages == {"stt", "llm", "tts"}

\* The transport events each application registers a handler for.
EventHandlers(a) ==
    IF a = "MedFlow"
    THEN {"on_first_participant_joined"}
    ELSE {"on_client_connected", "on_client_disconnected"}

\* The events the transport of each application raises.
ConnectEvent(a) ==
    IF a = "MedFlow" THEN "on_first_participant_joined" ELSE "on_client_connected"

DisconnectEvent(a) ==
    IF a = "MedFlow" THEN "on_participant_left" ELSE "on_client_disconnected"

\* An event is handed to its handler if one is registered, else dropped.
Raise(e) ==
    events' = IF e \in EventHandlers(app) THEN events \cup {e} ELSE events

FramesInPipeline ==
    LET Sum[i \in 0..NumStages] ==
            IF i = 0 THEN 0
            ELSE Sum[i - 1] + inbox[i] + (IF calling[i] = "no" THEN 0 ELSE 1)
    IN  Sum[NumStages]

\* A pipeline that drops the frame it is given when its first queue is full.
QueueFrame_DropsWhenFull ==
    IF cancelRequested
    THEN UNCHANGED <<inbox, fifo, produced>>
    ELSE /\ produced < MaxIds
         /\ produced' = produced + 1
         /\ IF inbox[1] < QueueCap /\ FramesInPipeline < MaxFrames
            THEN /\ inbox' = [inbox EXCEPT ![1] = @ + 1]
                 /\ fifo' = [fifo EXCEPT ![1] = Append(@, produced + 1)]
            ELSE UNCHANGED <<inbox, fifo>>

\* task.queue_frames / the input transport: a frame enters the first stage.
\* A full queue blocks the producer; a pipeline that is being cancelled
\* discards the frame.
QueueFrame ==
    IF cancelRequested
    THEN UNCHANGED <<inbox, fifo, produced>>
    ELSE /\ inbox[1] < QueueCap
         /\ FramesInPipeline < MaxFrames
         /\ produced < MaxIds
         /\ produced' = produced + 1
         /\ inbox' = [inbox EXCEPT ![1] = @ + 1]
         /\ fifo' = [fifo EXCEPT ![1] = Append(@, produced + 1)]

\* The transport connects the caller.
Connect ==
    /\ transport = "idle"
    /\ runner = "running"
    /\ transport' = "connected"
    /\ Raise(ConnectEvent(app))
    /\ UNCHANGED <<app, cancelRequested, cancelAt, inbox, fifo, held, delivered, produced, calling, speaking,
                   recording, buffered, files, runner, handle>>
    /\ UNCHANGED <<intakeVars, otherVars>>

\* The caller leaves.
Disconnect ==
    /\ transport = "connected"
    /\ transport' = "disconnected"
    /\ Raise(DisconnectEvent(app))
    /\ UNCHANGED <<app, cancelRequested, cancelAt, inbox, fifo, held, delivered, produced, calling, speaking,
                   recording, buffered, files, runner, handle>>
    /\ UNCHANGED <<intakeVars, otherVars>>

\* task.cancel(): cancellation of the pipeline task is requested.
task_cancel == cancelRequested' = TRUE

\* VoiceFlow on_client_connected: recording starts and the context frame
\* that opens the conversation is queued.
on_client_connected ==
    /\ "on_client_connected" \in events
    /\ recording' = TRUE
    /\ QueueFrame
    /\ events' = events \ {"on_client_connected"}
    /\ UNCHANGED <<app, transport, cancelRequested, cancelAt, held, delivered,
                   calling, speaking, buffered, files, runner, handle>>
    /\ UNCHANGED <<intakeVars, otherVars>>

\* VoiceFlow on_client_disconnected: the pipeline task is cancelled.
on_client_disconnected ==
    /\ "on_client_disconnected" \in events
    /\ task_cancel
    /\ events' = events \ {"on_client_disconnected"}
    /\ UNCHANGED <<app, transport, cancelAt, inbox, fifo, held, delivered, produced, calling, speaking,
                   recording, buffered, files, runner, handle>>
    /\ UNCHANGED <<intakeVars, otherVars>>

\* MedFlow on_first_participant_joined, seen from the pipeline: the context
\* frame that opens the dialogue is queued.
JoinedQueuesFrame ==
    /\ "on_first_participant_joined" \in events
    /\ QueueFrame
    /\ events' = events \ {"on_first_participant_joined"}
    /\ UNCHANGED <<app, transport, cancelRequested, cancelAt, held, delivered,
                   calling, speaking, recording, buffered, files, runner, handle>>
    /\ UNCHANGED <<intakeVars, otherVars>>

\* The frame the handler of a pending connect event will still queue.
SeedPending == IF ConnectEvent(app) \in events THEN 1 ELSE 0

\* The caller starts to speak: the detector marks the start of an utterance.
UtteranceStart ==
    /\ transport = "connected"
    /\ ~speaking
    /\ produced + SeedPending < MaxIds
    /\ speaking' = TRUE
    /\ QueueFrame
    /\ UNCHANGED <<app, transport, events, cancelRequested, cancelAt, held,
                   delivered, calling, recording, buffered, files, runner, handle>>
    /\ UNCHANGED <<intakeVars, otherVars>>

\* The caller has been silent long enough: the utterance ends.
UtteranceEnd ==
    /\ transport = "connected"
    /\ speaking
    /\ produced + SeedPending < MaxIds
    /\ speaking' = FALSE
    /\ QueueFrame
    /\ UNCHANGED <<app, transport, events, cancelRequested, cancelAt, held,
                   delivered, calling, recording, buffered, files, runner, handle>>
    /\ UNCHANGED <<intakeVars, otherVars>>

\* A stage that takes the newest frame of its queue first.
Dequeue_Newest(q) == [frame |-> q[Len(q)], rest |-> SubSeq(q, 1, Len(q) - 1)]

\* A stage takes the oldest frame of its queue.
Dequeue(q) == [frame |-> Head(q), rest |-> Tail(q)]

\* n frames made from frame f.
Copies(f, n) == [k \in 1..n |-> f]

\* Stage i takes a frame from its queue and hands the n frames it makes from
\* it to the next stage (the last stage consumes the frame); a full queue
\* downstream blocks the stage.
Forward(i, n) ==
    LET d == Dequeue(fifo[i])
    IN  /\ delivered' = [delivered EXCEPT ![i] = d.frame]
        /\ IF i = NumStages
           THEN /\ inbox' = [inbox EXCEPT ![i] = @ - 1]
                /\ fifo' = [fifo EXCEPT ![i] = d.rest]
           ELSE /\ inbox[i + 1] + n <= QueueCap
                /\ FramesInPipeline + n - 1 <= MaxFrames
                /\ inbox' = [inbox EXCEPT ![i] = @ - 1, ![i + 1] = @ + n]
                /\ fifo' = [fifo EXCEPT ![i] = d.rest,
                                        ![i + 1] = @ \o Copies(d.frame, n)]

\* The audio buffer adds the audio of a frame at the end of its recording.
Record(buf, f) == Append(buf, f)

\* A stage without an external service processes the frame at the head of
\* its queue.  The audio buffer keeps the audio while it records.
Process(i) ==
    /\ i > cancelAt
    /\ Stages(app)[i] \notin ExternalStages
    /\ inbox[i] > 0
    /\ Forward(i, 1)
    /\ buffered' = IF /\ Stages(app)[i] = "audiobuffer"
                      /\ recording
                      /\ Len(buffered) < MaxAudio
                   THEN Record(buffered, Dequeue(fifo[i]).frame)
                   ELSE buffered
    /\ UNCHANGED <<app, transport, events, cancelRequested, cancelAt, held,
                   produced, calling, speaking, recording, files, runner, handle>>
    /\ UNCHANGED <<intakeVars, otherVars>>

\* A stage with an external service takes a frame and calls the service.
CallStarts(i) ==
    /\ i > cancelAt
    /\ Stages(app)[i] \in ExternalStages
    /\ calling[i] = "no"
    /\ inbox[i] > 0
    /\ inbox' = [inbox EXCEPT ![i] = @ - 1]
    /\ fifo' = [fifo EXCEPT ![i] = Dequeue(@).rest]
    /\ held' = [held EXCEPT ![i] = Dequeue(fifo[i]).frame]
    /\ delivered' = [delivered EXCEPT ![i] = Dequeue(fifo[i]).frame]
    /\ calling' = [calling EXCEPT ![i] = "yes"]
    /\ UNCHANGED <<app, transport, events, cancelRequested, cancelAt, produced,
                   speaking, recording, buffered, files, runner, handle>>
    /\ UNCHANGED <<intakeVars, otherVars>>

\* The external call returns and its result goes downstream: one frame,
\* or, from the synthesis of a reply, one frame or several.
CallReturns(i) ==
    /\ i > cancelAt
    /\ calling[i] = "yes"
    /\ \E n \in (IF Stages(app)[i] = "tts" THEN {1, 2} ELSE {1}) :
         /\ inbox[i + 1] + n <= QueueCap
         /\ FramesInPipeline + n - 1 <= MaxFrames
         /\ inbox' = [inbox EXCEPT ![i + 1] = @ + n]
         /\ fifo' = [fifo EXCEPT ![i + 1] = @ \o Copies(held[i], n)]
    /\ held' = [held EXCEPT ![i] = 0]
    /\ calling' = [calling EXCEPT ![i] = "no"]
    /\ UNCHANGED <<app, transport, events, cancelRequested, cancelAt, delivered,
                   produced, speaking, recording, buffered, files, runner, handle>>
    /\ UNCHANGED <<intakeVars, otherVars>>

\* The external call will never return.
CallHangs(i) ==
    /\ i > cancelAt
    /\ calling[i] = "yes"
    /\ calling' = [calling EXCEPT ![i] = "hung"]
    /\ UNCHANGED <<app, transport, events, cancelRequested, cancelAt, inbox, fifo, held, delivered, produced,
                   speaking, recording, buffered, files, runner, handle>>
    /\ UNCHANGED <<intakeVars, otherVars>>

\* save_audio without the check for an empty recording: writing fails, and
\* the handler does not complete, when there is no audio.
save_audio_FailsOnEmpty(audio) ==
    /\ Len(audio) > 0
    /\ files' = Append(files, audio)

\* save_audio without the check for an empty recording: a file is written
\* for every recording it is given.
save_audio_WritesEmpty(audio) ==
    files' = Append(files, audio)

\* save_audio: a recording file is written if there is audio.
save_audio(audio) ==
    files' = IF Len(audio) > 0 THEN Append(files, audio) ELSE files

\* VoiceFlow on_audio_data: the audio the buffer hands over is saved.
on_audio_data(audio) == save_audio(audio)

\* Cancellation that waits behind the queued work: the stage stops only when
\* its queue is empty and no external call is in progress.
CancelStep_DrainsFirst ==
    /\ cancelRequested
    /\ cancelAt < NumStages
    /\ inbox[cancelAt + 1] = 0
    /\ calling[cancelAt + 1] = "no"
    /\ cancelAt' = cancelAt + 1
    /\ IF Stages(app)[cancelAt + 1] = "audiobuffer"
       THEN /\ on_audio_data(buffered)
            /\ buffered' = <<>>
            /\ recording' = FALSE
       ELSE UNCHANGED <<files, buffered, recording>>
    /\ UNCHANGED <<app, transport, events, cancelRequested, inbox, fifo, held,
                   calling, delivered, produced, speaking, runner, handle>>
    /\ UNCHANGED <<intakeVars, otherVars>>

\* The cancel frame reaches the next stage: the stage stops at once, its
\* external call is interrupted and the frames queued behind are discarded.
\* The audio buffer hands its audio to on_audio_data and empties itself.
CancelStep ==
    /\ cancelRequested
    /\ cancelAt < NumStages
    /\ cancelAt' = cancelAt + 1
    /\ inbox' = [inbox EXCEPT ![cancelAt + 1] = 0]
    /\ fifo' = [fifo EXCEPT ![cancelAt + 1] = <<>>]
    /\ held' = [held EXCEPT ![cancelAt + 1] = 0]
    /\ calling' = [calling EXCEPT ![cancelAt + 1] = "no"]
    /\ IF Stages(app)[cancelAt + 1] = "audiobuffer"
       THEN /\ on_audio_data(buffered)
            /\ buffered' = <<>>
            /\ recording' = FALSE
       ELSE UNCHANGED <<files, buffered, recording>>
    /\ UNCHANGED <<app, transport, events, cancelRequested, delivered, produced,
                   speaking, runner, handle>>
    /\ UNCHANGED <<intakeVars, otherVars>>

\* Every stage has stopped: runner.run(task) returns, the session function
\* returns and the transport handle is released.
RunnerReturns ==
    /\ runner = "running"
    /\ cancelAt = NumStages
    /\ runner' = "returned"
    /\ handle' = "released"
    /\ UNCHANGED <<app, transport, events, cancelRequested, cancelAt, inbox, fifo, held, delivered, produced,
                   calling, speaking, recording, buffered, files>>
    /\ UNCHANGED <<intakeVars, otherVars>>

SessionInitFor(a) ==
    /\ app = a
    /\ transport = "idle"
    /\ events = {}
    /\ cancelRequested = FALSE
    /\ cancelAt = 0
    /\ inbox = [i \in 1..Len(Stages(a)) |-> 0]
    /\ fifo = [i \in 1..Len(Stages(a)) |-> <<>>]
    /\ held = [i \in 1..Len(Stages(a)) |-> 0]
    /\ delivered = [i \in 1..Len(Stages(a)) |-> 0]
    /\ produced = 0
    /\ calling = [i \in 1..Len(Stages(a)) |-> "no"]
    /\ speaking = FALSE
    /\ recording = FALSE
    /\ buffered = <<>>
    /\ files = <<>>
    /\ runner = "running"
    /\ handle = "open"

IntakeStart ==
    /\ IntakeInit
    /\ call = NoCall
    /\ llmQueue = 0
    /\ handed = <<>>
    /\ gen = NoGen
    /\ joined = FALSE
    /\ turns = 0
    /\ last = NoLast

---------------------------------------------------------------------------
(* The socket handshake of VoiceFlow: the test client (client.py) and the   *)
(* websocket endpoint of the server.                                         *)

\* str(uuid4()): the identifiers a client may draw.
Sids == 1..MaxSids

NoSession == [streamSid |-> 0, callSid |-> 0]

\* The messages of the test client.
ConnectedMsg == [event |-> "connected", protocol |-> "Call"]

StartMsg(s, c) ==
    [event |-> "start", streamSid |-> s, callSid |-> c,
     start |-> [streamSid |-> s, callSid |-> c]]

MediaMsg == [event |-> "media"]

\* on_connected with the start message sent before the connected message.
HandshakeMessages_StartFirst(ids) ==
    <<StartMsg(ids.streamSid, ids.callSid), ConnectedMsg>>

\* on_connected: the messages the handler sends, in the order it sends them.
HandshakeMessages(ids) ==
    <<ConnectedMsg, StartMsg(ids.streamSid, ids.callSid)>>

Send(m) ==
    /\ toServer' = Append(toServer, m)
    /\ sent' = Append(sent, m)

\* The transport of the test client connects to the stream URL.
ClientDials ==
    /\ cpc = "created"
    /\ cpc' = "dialing"
    /\ UNCHANGED <<serializer, sent, toServer, spc, consumed, starts, session,
                   toClient, heard>>
    /\ UNCHANGED notWire

\* websocket_endpoint: await websocket.accept().
accept ==
    /\ spc = "listening"
    /\ cpc = "dialing"
    /\ spc' = "accepted"
    /\ cpc' = "on_connected"
    /\ UNCHANGED <<serializer, sent, toServer, consumed, starts, session,
                   toClient, heard>>
    /\ UNCHANGED notWire

\* on_connected up to its first send: the connection message.
on_connected ==
    /\ cpc = "on_connected"
    /\ Send(HandshakeMessages(serializer)[1])
    /\ cpc' = "send_start"
    /\ UNCHANGED <<serializer, spc, consumed, starts, session, toClient, heard>>
    /\ UNCHANGED notWire

\* on_connected after its first send: the start message.
on_connected_start ==
    /\ cpc = "send_start"
    /\ Send(HandshakeMessages(serializer)[2])
    /\ cpc' = "running"
    /\ UNCHANGED <<serializer, spc, consumed, starts, session, toClient, heard>>
    /\ UNCHANGED notWire

\* websocket_endpoint: await start_data.__anext__(), the message is skipped.
SkipFirst ==
    /\ spc = "accepted"
    /\ toServer # <<>>
    /\ toServer' = Tail(toServer)
    /\ consumed' = consumed + 1
    /\ spc' = "skipped"
    /\ UNCHANGED <<cpc, serializer, sent, starts, session, toClient, heard>>
    /\ UNCHANGED notWire

\* websocket_endpoint: the second message is parsed, the identifiers are
\* read from its "start" field and run_voice_assistant is called with them.
\* A message without that field raises KeyError and ends the endpoint.
ParseStart ==
    /\ spc = "skipped"
    /\ toServer # <<>>
    /\ toServer' = Tail(toServer)
    /\ consumed' = consumed + 1
    /\ LET call_data == Head(toServer)
       IN  IF "start" \in DOMAIN call_data
           THEN /\ session' = [streamSid |-> call_data.start.streamSid,
                               callSid |-> call_data.start.callSid]
                /\ starts' = starts + 1
                /\ spc' = "running"
           ELSE /\ spc' = "raised"
                /\ UNCHANGED <<session, starts>>
    /\ UNCHANGED <<cpc, serializer, sent, toClient, heard>>
    /\ UNCHANGED notWire

\* The running server pipeline reads a message from the socket.
ServerReads ==
    /\ spc = "running"
    /\ toServer # <<>>
    /\ toServer' = Tail(toServer)
    /\ UNCHANGED <<cpc, serializer, sent, spc, consumed, starts, session,
                   toClient, heard>>
    /\ UNCHANGED notWire

\* The running server pipeline sends audio (its greeting, its replies).
ServerSendsAudio ==
    /\ spc = "running"
    /\ toClient + heard < MaxMedia
    /\ toClient' = toClient + 1
    /\ UNCHANGED <<cpc, serializer, sent, toServer, spc, consumed, starts,
                   session, heard>>
    /\ UNCHANGED notWire

\* The test client receives audio.
ClientHears ==
    /\ toClient > 0
    /\ toClient' = toClient - 1
    /\ heard' = heard + 1
    /\ UNCHANGED <<cpc, serializer, sent, toServer, spc, consumed, starts,
                   session>>
    /\ UNCHANGED notWire

\* The test client answers what it has heard: its pipeline has no context
\* frame queued at the start, so it speaks only after audio has arrived.
ClientSendsAudio ==
    /\ cpc \in {"send_start", "running"}
    /\ heard > 0
    /\ Len(sent) < MaxMedia + 2
    /\ Send(MediaMsg)
    /\ UNCHANGED <<cpc, serializer, spc, consumed, starts, session, toClient,
                   heard>>
    /\ UNCHANGED notWire

\* run_client: the identifiers are drawn and given to the serializer.
WireInit ==
    /\ cpc = "created"
    /\ serializer \in [streamSid : Sids, callSid : Sids]
    /\ sent = <<>>
    /\ toServer = <<>>
    /\ spc = "listening"
    /\ consumed = 0
    /\ starts = 0
    /\ session = NoSession
    /\ toClient = 0
    /\ heard = 0

\* No socket of the test client.
WireIdle ==
    /\ WireInit
    /\ serializer = [streamSid |-> 1, callSid |-> 1]

---------------------------------------------------------------------------
(* Two sessions at once.  Each call of run_voice_assistant, run_client or  *)
(* main creates its own context, audio buffer and task.                    *)

Sessions == {"first", "second"}

Objects == 1..Cardinality(Sessions)

NoLocals == [context |-> 0, audiobuffer |-> 0]

NoContext == [messages |-> <<>>, tools |-> {}]

NoBuffer == [recording |-> FALSE, audio |-> <<>>]

\* A list and a context at module level: every call gets the same object.
NewObject_ModuleLevel(n) == 1

\* system_messages = [...], OpenAILLMContext(...), AudioBufferProcessor():
\* evaluated in the body of the function, a new object at every call.
NewObject(n) == n + 1

\* The context a session starts with: the teacher prompt of VoiceFlow, the
\* greeting and verify_birthday of IntakeProcessor.__init__.
FirstContext(a) ==
    IF a = "MedFlow"
    THEN [messages |-> <<IntroMessage>>, tools |-> {"verify_birthday"}]
    ELSE [messages |-> <<SystemMessage("teacher")>>, tools |-> {}]

\* The session function is called: its objects are created.
PeerStarts(s) ==
    /\ tasks[s] = "none"
    /\ LET id == NewObject(allocated)
       IN  /\ locals' = [locals EXCEPT ![s] = [context |-> id, audiobuffer |-> id]]
           /\ contexts' = [contexts EXCEPT ![id] = FirstContext(appOf[s])]
           /\ audiobuffers' = [audiobuffers EXCEPT ![id] = NoBuffer]
    /\ allocated' = allocated + 1
    /\ tasks' = [tasks EXCEPT ![s] = "running"]
    /\ actor' = s
    /\ UNCHANGED appOf
    /\ UNCHANGED notPeers

Appends(s) == Len(contexts[locals[s].context].messages)

\* VoiceFlow on_client_connected / on_connected: recording starts and, on
\* the server, a message is appended to the session's system_messages.
PeerConnected(s) ==
    /\ tasks[s] = "running"
    /\ appOf[s] = "VoiceFlow"
    /\ ~audiobuffers[locals[s].audiobuffer].recording
    /\ Appends(s) <= MaxAppends
    /\ audiobuffers' = [audiobuffers EXCEPT ![locals[s].audiobuffer].recording = TRUE]
    /\ contexts' = [contexts EXCEPT ![locals[s].context].messages =
                                       Append(@, SystemMessage("introduce"))]
    /\ actor' = s
    /\ UNCHANGED <<appOf, locals, tasks, allocated>>
    /\ UNCHANGED notPeers

\* An aggregator of the session appends a turn to its context.
PeerTurn(s) ==
    /\ tasks[s] = "running"
    /\ Appends(s) <= MaxAppends
    /\ \E m \in {UserMessage, AssistantMessage} :
          contexts' = [contexts EXCEPT ![locals[s].context].messages = Append(@, m)]
    /\ actor' = s
    /\ UNCHANGED <<appOf, locals, audiobuffers, tasks, allocated>>
    /\ UNCHANGED notPeers

\* A MedFlow handler of the session advances its dialogue: the tools of its
\* context are replaced and the next instruction is appended.
PeerToolCall(s) ==
    /\ tasks[s] = "running"
    /\ appOf[s] = "MedFlow"
    /\ Appends(s) <= MaxAppends
    /\ LET c == contexts[locals[s].context]
           r == Rank(StateOfTools(c.tools))
       IN  /\ c.tools # {}
           /\ contexts' =
                [contexts EXCEPT ![locals[s].context] =
                    [messages |-> Append(c.messages, SystemMessage("next_step")),
                     tools |-> ToolOfState(DialogueStates[r + 1])]]
    /\ actor' = s
    /\ UNCHANGED <<appOf, locals, audiobuffers, tasks, allocated>>
    /\ UNCHANGED notPeers

\* The audio buffer of the session records audio.
PeerRecords(s) ==
    /\ tasks[s] = "running"
    /\ audiobuffers[locals[s].audiobuffer].recording
    /\ Len(audiobuffers[locals[s].audiobuffer].audio) < MaxAudio
    /\ audiobuffers' = [audiobuffers EXCEPT ![locals[s].audiobuffer].audio =
                                               Record(@, Len(@) + 1)]
    /\ actor' = s
    /\ UNCHANGED <<appOf, locals, contexts, tasks, allocated>>
    /\ UNCHANGED notPeers

\* on_client_disconnected of the session: its task is cancelled and its
\* audio buffer hands over its audio.
PeerCancelled(s) ==
    /\ tasks[s] = "running"
    /\ appOf[s] = "VoiceFlow"
    /\ tasks' = [tasks EXCEPT ![s] = "cancelled"]
    /\ audiobuffers' = [audiobuffers EXCEPT ![locals[s].audiobuffer] = NoBuffer]
    /\ actor' = s
    /\ UNCHANGED <<appOf, locals, contexts, allocated>>
    /\ UNCHANGED notPeers

PeersInit ==
    /\ appOf \in [Sessions -> Apps]
    /\ locals = [s \in Sessions |-> NoLocals]
    /\ contexts = [o \in Objects |-> NoContext]
    /\ audiobuffers = [o \in Objects |-> NoBuffer]
    /\ tasks = [s \in Sessions |-> "none"]
    /\ allocated = 0
    /\ actor = "first"

\* No second session.
PeersIdle ==
    /\ PeersInit
    /\ appOf = [s \in Sessions |-> "VoiceFlow"]

---------------------------------------------------------------------------
(* The boundary detector of a VoiceFlow transport.  Times are in tenths of *)
(* a second.                                                               *)

Sides == {"server", "client"}

\* VADParams(stop_secs=1.0) of the test client.
ClientStopSecs == 10

\* The design default of the trailing silence that ends an utterance.
DesignStopSecs == 10

\* The length of an audio chunk.
ChunkTenths == 5

\* The stop times an analyzer that is given no parameters may use.
LibraryStops == {5, 8, 10}

\* The parameters each side gives its analyzer: the test client sets the
\* stop time, the server constructs the analyzer without parameters.
VadParams(sd) ==
    IF sd = "client"
    THEN [stop_secs |-> ClientStopSecs]
    ELSE [default |-> TRUE]

\* The stop time in force.
StopSecs ==
    IF "stop_secs" \in DOMAIN VadParams(side)
    THEN VadParams(side).stop_secs
    ELSE libraryStop

\* A chunk classified as speech: the first one after silence starts an
\* utterance; trailing silence is over.
SpeechChunk ==
    /\ chunks < MaxChunks
    /\ chunks' = chunks + 1
    /\ silence' = 0
    /\ vadState' = "speaking"
    /\ markers' = IF vadState = "quiet" THEN Append(markers, "start") ELSE markers
    /\ UNCHANGED <<side, libraryStop>>
    /\ UNCHANGED notVad

\* A chunk classified as silence: inside an utterance the trailing silence
\* grows, and the utterance ends once it exceeds the stop time.
SilentChunk ==
    /\ chunks < MaxChunks
    /\ chunks' = chunks + 1
    /\ IF vadState = "speaking"
       THEN IF silence + ChunkTenths > StopSecs
            THEN /\ markers' = Append(markers, "end")
                 /\ vadState' = "quiet"
                 /\ silence' = 0
            ELSE /\ silence' = silence + ChunkTenths
                 /\ UNCHANGED <<markers, vadState>>
       ELSE UNCHANGED <<markers, vadState, silence>>
    /\ UNCHANGED <<side, libraryStop>>
    /\ UNCHANGED notVad

VadInit ==
    /\ side \in Sides
    /\ libraryStop \in LibraryStops
    /\ vadState = "quiet"
    /\ silence = 0
    /\ markers = <<>>
    /\ chunks = 0

\* No audio analysed.
VadIdle ==
    /\ VadInit
    /\ side = "server"
    /\ libraryStop = DesignStopSecs

---------------------------------------------------------------------------
(* The intake server, src/MedFlow/server.py: start_agent, get_status and    *)
(* cleanup around the registry bot_procs.  start_agent is split at its two  *)
(* awaits, create_room and get_token.                                       *)

MAX_BOTS_PER_ROOM == 1

StartRequests == 1..MaxRequests

\* The room URLs create_room may answer with; the empty URL is a failure.
Rooms == 1..MaxRooms

NoUrl == 0

NoToken == 0

Pids == 1..MaxPids

\* The processes spawned, in the order of their Popen: each request spawns
\* at most one.
Spawned == 1..MaxRequests

NoEntry == [proc |-> 0, url |-> NoUrl]

NoRequest == [pc |-> "idle", url |-> NoUrl, token |-> NoToken]

NoAnswer == [pid |-> 0, status |-> "none"]

\* proc.poll() is None: the process has not exited.
Running(p) == procs[p].state = "running"

\* The process ids in use: a process id is free again once the process has
\* exited and has been waited for.
PidsInUse == {procs[p].pid : p \in {q \in 1..Len(procs) : procs[q].state # "reaped"}}

\* poll() and wait() collect a process that has exited.
Polled(ps, which) ==
    [p \in 1..Len(ps) |->
        IF p \in which /\ ps[p].state = "exited"
        THEN [ps[p] EXCEPT !.state = "reaped"]
        ELSE ps[p]]

\* The registered processes poll() is called on when the bots of a room are
\* counted: those registered for the room.
InRoom(url) == {bot_procs[pid].proc : pid \in {q \in Pids : bot_procs[q].url = url}}

num_bots_in_room(url) == Cardinality({p \in InRoom(url) : Running(p)})

\* A failure that drops the entries of the registry.
Fails_DropsRegistry(r) ==
    /\ reqs' = [reqs EXCEPT ![r].pc = "error"]
    /\ bot_procs' = [pid \in Pids |-> NoEntry]
    /\ UNCHANGED server

Fails(r) ==
    /\ reqs' = [reqs EXCEPT ![r].pc = "error"]
    /\ UNCHANGED <<bot_procs, server>>

\* A start-session request arrives: start_agent up to await create_room.
start_agent(r) ==
    /\ server.up
    /\ reqs[r].pc = "idle"
    /\ reqs' = [reqs EXCEPT ![r].pc = "create_room"]
    /\ UNCHANGED <<bot_procs, procs, server>>
    /\ UNCHANGED notRegistry

\* start_agent from the answer of create_room to await get_token: the room
\* URL is validated and the bots of the room are counted.
start_agent_room(r) ==
    /\ server.up
    /\ reqs[r].pc = "create_room"
    /\ \E url \in Rooms \cup {NoUrl} :
         IF url = NoUrl
         THEN Fails(r) /\ UNCHANGED procs
         ELSE /\ procs' = Polled(procs, InRoom(url))
              /\ IF num_bots_in_room(url) >= MAX_BOTS_PER_ROOM
                 THEN Fails(r)
                 ELSE /\ reqs' = [reqs EXCEPT ![r].pc = "get_token", ![r].url = url]
                      /\ UNCHANGED <<bot_procs, server>>
    /\ UNCHANGED notRegistry

\* Popen and the registration of the new process under its process id.
Spawn(r, token, pid) ==
    /\ procs' = Append(procs, [pid |-> pid, state |-> "running"])
    /\ bot_procs' = [bot_procs EXCEPT ![pid] = [proc |-> Len(procs) + 1,
                                                url |-> reqs[r].url]]
    /\ reqs' = [reqs EXCEPT ![r].pc = "done", ![r].token = token]
    /\ UNCHANGED server

\* start_agent from the answer of get_token to its end: without a token the
\* request fails; Popen either raises or gives a process, which is
\* registered, and the request is redirected to the room.
start_agent_token(r) ==
    /\ server.up
    /\ reqs[r].pc = "get_token"
    /\ \E token \in {NoToken, 1} :
         IF token = NoToken
         THEN Fails(r) /\ UNCHANGED procs
         ELSE \/ Fails(r) /\ UNCHANGED procs
              \/ \E pid \in Pids \ PidsInUse : Spawn(r, token, pid)
    /\ UNCHANGED notRegistry

\* A bot process ends by itself.
BotExits(p) ==
    /\ p \in 1..Len(procs)
    /\ Running(p)
    /\ procs' = [procs EXCEPT ![p].state = "exited"]
    /\ UNCHANGED <<bot_procs, reqs, server>>
    /\ UNCHANGED notRegistry

\* get_status: not found without an entry, else running or finished by
\* poll() of the registered process.
get_status(pid) ==
    /\ server.up
    /\ IF bot_procs[pid] = NoEntry
       THEN /\ server' = [server EXCEPT !.answer = [pid |-> pid, status |-> "not_found"]]
            /\ UNCHANGED procs
       ELSE /\ server' = [server EXCEPT !.answer =
                            [pid |-> pid,
                             status |-> IF Running(bot_procs[pid].proc)
                                        THEN "running" ELSE "finished"]]
            /\ procs' = Polled(procs, {bot_procs[pid].proc})
    /\ UNCHANGED <<bot_procs, reqs>>
    /\ UNCHANGED notRegistry

\* lifespan after the yield: cleanup() terminates and waits for the process
\* of every entry of bot_procs.
cleanup ==
    /\ server.up
    /\ \A r \in StartRequests : reqs[r].pc \in {"idle", "done", "error"}
    /\ procs' = [p \in 1..Len(procs) |->
                    IF \E pid \in Pids : bot_procs[pid].proc = p
                    THEN [procs[p] EXCEPT !.state = "reaped"]
                    ELSE procs[p]]
    /\ server' = [server EXCEPT !.up = FALSE]
    /\ UNCHANGED <<bot_procs, reqs>>
    /\ UNCHANGED notRegistry

RegistryInit ==
    /\ bot_procs = [pid \in Pids |-> NoEntry]
    /\ procs = <<>>
    /\ reqs = [r \in StartRequests |-> NoRequest]
    /\ server = [up |-> TRUE, answer |-> NoAnswer]

---------------------------------------------------------------------------
(* The configuration of the bot process, src/MedFlow/runner.py configure.  *)

\* A command line option that is not given, an environment variable that is
\* not set: None.
None == "None"

\* What the command line may hold for -u and -k, and the environment for
\* DAILY_SAMPLE_ROOM_URL and DAILY_API_KEY.
ArgUrls == {None, "", "url-arg"}

EnvUrls == {None, "", "url-env"}

ArgKeys == {None, "", "key-arg"}

EnvKeys == {None, "", "key-env"}

\* not x is false for a string that is not empty.
Truthy(x) == x \notin {None, ""}

\* x or y, with the environment first.
Or_EnvironmentFirst(x, y) == IF Truthy(y) THEN y ELSE x

\* x or y.
Or(x, y) == IF Truthy(x) THEN x ELSE y

NoConfig ==
    [pc |-> "off", argUrl |-> None, argKey |-> None, envUrl |-> None,
     envKey |-> None, url |-> None, key |-> None, error |-> "none",
     token_requests |-> 0, result |-> <<>>]

\* The bot process is started with a command line and an environment.
BotStarts ==
    /\ config.pc = "off"
    /\ \E au \in ArgUrls, ak \in ArgKeys, eu \in EnvUrls, ek \in EnvKeys :
         config' = [config EXCEPT !.pc = "configure", !.argUrl = au,
                                  !.argKey = ak, !.envUrl = eu, !.envKey = ek]
    /\ UNCHANGED notConfig

\* configure up to await get_token: the url and the key are resolved and
\* validated, the url first.
configure ==
    /\ config.pc = "configure"
    /\ LET url == Or(config.argUrl, config.envUrl)
           key == Or(config.argKey, config.envKey)
       IN  config' =
             IF ~Truthy(url)
             THEN [config EXCEPT !.pc = "raised", !.url = url, !.key = key,
                                 !.error = "no_url"]
             ELSE IF ~Truthy(key)
             THEN [config EXCEPT !.pc = "raised", !.url = url, !.key = key,
                                 !.error = "no_key"]
             ELSE [config EXCEPT !.pc = "get_token", !.url = url, !.key = key,
                                 !.token_requests = @ + 1]
    /\ UNCHANGED notConfig

\* The token request answers and configure returns (url, token).
configure_returns ==
    /\ config.pc = "get_token"
    /\ config' = [config EXCEPT !.pc = "returned",
                                !.result = <<config.url, "token">>]
    /\ UNCHANGED notConfig

\* The token request fails: the exception of get_token leaves configure.
get_token_raises ==
    /\ config.pc = "get_token"
    /\ config' = [config EXCEPT !.pc = "raised", !.error = "get_token"]
    /\ UNCHANGED notConfig

ConfigInit == config = NoConfig

---------------------------------------------------------------------------
(* The test client, src/VoiceFlow/web-clients/python/client.py: main runs  *)
(* MaxClients sessions at once, each a pipeline that end_call ends with an *)
(* end frame once the duration has elapsed.                                *)

Clients == 1..MaxClients

NoClient ==
    [pc |-> "off", timer |-> "none", run |-> "none", queue |-> <<>>,
     frames |-> 0, calling |-> "no", audio |-> 0, flushes |-> 0, files |-> 0]

\* main up to await asyncio.gather: a task per client is created.
main ==
    /\ mainpc = "off"
    /\ mainpc' = "gathering"
    /\ clients' = [c \in Clients |-> [clients[c] EXCEPT !.pc = "setup"]]
    /\ UNCHANGED notClients

\* run_client up to await asyncio.gather: the stream url is downloaded and
\* parsed, which may raise, and the pipeline and the timer are started.
download_twiml(c) ==
    /\ mainpc = "gathering"
    /\ clients[c].pc = "setup"
    /\ \/ clients' = [clients EXCEPT ![c].pc = "raised"]
       \/ clients' = [clients EXCEPT ![c].pc = "running",
                                     ![c].timer = "sleeping",
                                     ![c].run = "running"]
    /\ UNCHANGED mainpc
    /\ UNCHANGED notClients

\* A frame of the conversation enters the pipeline of the client.
FrameArrives(c) ==
    /\ mainpc = "gathering"
    /\ clients[c].run = "running"
    /\ clients[c].frames < MaxPending
    /\ clients' = [clients EXCEPT ![c].queue = Append(@, "frame"),
                                  ![c].frames = @ + 1]
    /\ UNCHANGED mainpc
    /\ UNCHANGED notClients

\* The stage at work takes the frame at the head and calls its service.
ClientCallStarts(c) ==
    /\ mainpc = "gathering"
    /\ clients[c].run = "running"
    /\ clients[c].calling = "no"
    /\ clients[c].queue # <<>>
    /\ Head(clients[c].queue) = "frame"
    /\ clients' = [clients EXCEPT ![c].calling = "calling"]
    /\ UNCHANGED mainpc
    /\ UNCHANGED notClients

\* The call returns: the frame is done and its audio is recorded.
ClientCallReturns(c) ==
    /\ mainpc = "gathering"
    /\ clients[c].calling = "calling"
    /\ clients' = [clients EXCEPT ![c].calling = "no",
                                  ![c].queue = Tail(@),
                                  ![c].audio = @ + 1]
    /\ UNCHANGED mainpc
    /\ UNCHANGED notClients

\* The call never returns.
ClientCallHangs(c) ==
    /\ mainpc = "gathering"
    /\ clients[c].calling = "calling"
    /\ clients' = [clients EXCEPT ![c].calling = "hung"]
    /\ UNCHANGED mainpc
    /\ UNCHANGED notClients

\* task.queue_frame(EndFrame()): behind the frames already queued.
QueueEndFrame(q) == Append(q, "end")

\* end_call: the duration has elapsed and the end frame is queued.
end_call(c) ==
    /\ mainpc = "gathering"
    /\ clients[c].timer = "sleeping"
    /\ clients' = [clients EXCEPT ![c].timer = "done",
                                  ![c].queue = QueueEndFrame(@)]
    /\ UNCHANGED mainpc
    /\ UNCHANGED notClients

\* The end frame is at the head: the pipeline run ends and the audio buffer
\* hands its audio to on_audio_data, which saves it when there is any.
EndFrame(c) ==
    /\ mainpc = "gathering"
    /\ clients[c].run = "running"
    /\ clients[c].calling = "no"
    /\ clients[c].queue # <<>>
    /\ Head(clients[c].queue) = "end"
    /\ clients' = [clients EXCEPT ![c].run = "ended",
                                  ![c].queue = <<>>,
                                  ![c].flushes = @ + 1,
                                  ![c].files = IF clients[c].audio > 0
                                               THEN @ + 1 ELSE @]
    /\ UNCHANGED mainpc
    /\ UNCHANGED notClients

\* asyncio.gather(runner.run(task), end_call()) of run_client returns.
run_client_returns(c) ==
    /\ mainpc = "gathering"
    /\ clients[c].pc = "running"
    /\ clients[c].run = "ended"
    /\ clients[c].timer = "done"
    /\ clients' = [clients EXCEPT ![c].pc = "returned"]
    /\ UNCHANGED mainpc
    /\ UNCHANGED notClients

\* asyncio.gather(*client_tasks) of main returns: every client has returned.
gather_returns ==
    /\ mainpc = "gathering"
    /\ \A c \in Clients : clients[c].pc = "returned"
    /\ mainpc' = "completed"
    /\ UNCHANGED clients
    /\ UNCHANGED notClients

\* asyncio.gather(*client_tasks) of main raises with the first exception
\* of a client; asyncio.run then cancels the tasks that are still running.
gather_raises ==
    /\ mainpc = "gathering"
    /\ \E c \in Clients : clients[c].pc = "raised"
    /\ mainpc' = "raised"
    /\ clients' = [c \in Clients |->
                     IF clients[c].pc \in {"setup", "running"}
                     THEN [clients[c] EXCEPT !.pc = "cancelled"]
                     ELSE clients[c]]
    /\ UNCHANGED notClients

ClientsInit ==
    /\ clients = [c \in Clients |-> NoClient]
    /\ mainpc = "off"

---------------------------------------------------------------------------
(* The names of the recordings: save_audio and on_audio_data of            *)
(* src/VoiceFlow/src/core/voice_assistant.py and of the test client.       *)

Recorded == 1..MaxRecorded

\* The sides that record a session.
RecordingSides == {"server", "client"}

\* Who a session belongs to: for the server the host of the peer, for the
\* test client the run of the client program.
Owners == 1..MaxOwners

\* The number a session is named by: for the server the port of the peer,
\* for the test client the index i of the client in its run.
Numbers == 1..MaxNumbers

NoFile == <<>>

NoRecording ==
    [state |-> "none", side |-> "server", owner |-> 0, number |-> 0,
     audio |-> 0, file |-> NoFile]

\* f"voiceflow_server_{websocket_client.client.port}"
server_name(port) == <<"voiceflow_server", port>>

\* f"voiceflow_client_{i}"
client_name(i) == <<"voiceflow_client", i>>

\* datetime.now().strftime('%Y%m%d_%H%M%S'): the time to the second.
timestamp(t) == t \div 2

\* f"{server_name}_recording_{timestamp}.wav"
filename(name, t) == <<name, "recording", timestamp(t)>>

\* A session starts.  Two connections to the server that are open at once
\* differ in host or port; the clients of one run differ in their index.
RecordingStarts(s) ==
    /\ recs[s].state = "none"
    /\ \E sd \in RecordingSides, o \in Owners, n \in Numbers :
         /\ \A t \in Recorded \ {s} :
              (/\ recs[t].side = sd /\ recs[t].owner = o /\ recs[t].number = n
               /\ recs[t].state # "none")
                 => (sd = "server" /\ recs[t].state = "flushed")
         /\ recs' = [recs EXCEPT ![s].state = "recording", ![s].side = sd,
                                 ![s].owner = o, ![s].number = n]
    /\ UNCHANGED clock
    /\ UNCHANGED notRecordings

\* Audio of the session is buffered.
RecordingGrows(s) ==
    /\ recs[s].state = "recording"
    /\ recs[s].audio < MaxAudio
    /\ recs' = [recs EXCEPT ![s].audio = @ + 1]
    /\ UNCHANGED clock
    /\ UNCHANGED notRecordings

\* The session ends: on_audio_data names the recording and save_audio
\* writes it when there is audio.
RecordingSaved(s) ==
    /\ recs[s].state = "recording"
    /\ LET name == IF recs[s].side = "server"
                   THEN server_name(recs[s].number)
                   ELSE client_name(recs[s].number)
       IN  recs' = [recs EXCEPT ![s].state = "flushed",
                                ![s].file = IF recs[s].audio > 0
                                            THEN filename(name, clock)
                                            ELSE NoFile]
    /\ UNCHANGED clock
    /\ UNCHANGED notRecordings

\* Half a second passes.
Tick ==
    /\ clock < MaxTicks
    /\ clock' = clock + 1
    /\ UNCHANGED recs
    /\ UNCHANGED notRecordings

RecordingsInit ==
    /\ recs = [s \in Recorded |-> NoRecording]
    /\ clock = 0

\* No program around a session has been started.
AroundIdle == ConfigInit /\ ClientsInit /\ RecordingsInit

\* No request has been sent to the intake server.
ExtraIdle == RegistryInit /\ AroundIdle

---------------------------------------------------------------------------
(* The specifications.                                                     *)

vars == <<intakeVars, sessionVars, otherVars>>

\* The intake dialogue of a MedFlow session.
Init ==
    /\ IntakeStart
    /\ SessionInitFor("MedFlow")
    /\ WireIdle
    /\ PeersIdle
    /\ VadIdle
    /\ ExtraIdle

IntakeStep ==
    \/ HandlerStep
    \/ on_first_participant_joined
    \/ UserTurn
    \/ StartGeneration
    \/ GenerationText
    \/ GenerationToolCall

Next == IntakeStep

Spec == Init /\ [][Next]_vars

\* The life cycle of a session of either application.
SessionInit ==
    /\ IntakeStart
    /\ \E a \in Apps : SessionInitFor(a)
    /\ WireIdle
    /\ PeersIdle
    /\ VadIdle
    /\ ExtraIdle

SessionStep ==
    \/ Connect
    \/ Disconnect
    \/ on_client_connected
    \/ on_client_disconnected
    \/ JoinedQueuesFrame
    \/ UtteranceStart
    \/ UtteranceEnd
    \/ \E i \in 1..NumStages : Process(i)
    \/ \E i \in 1..NumStages : CallStarts(i)
    \/ \E i \in 1..NumStages : CallReturns(i)
    \/ \E i \in 1..NumStages : CallHangs(i)
    \/ CancelStep
    \/ RunnerReturns

SessionNext == SessionStep

SessionSpec == SessionInit /\ [][SessionNext]_vars

\* The event loop runs every task that is ready: a pending event handler,
\* the propagation of a cancel frame and the return of the runner are not
\* postponed for ever.
\* The handshake between the test client and the server endpoint.
WireStart ==
    /\ IntakeStart
    /\ SessionInitFor("VoiceFlow")
    /\ WireInit
    /\ PeersIdle
    /\ VadIdle
    /\ ExtraIdle

WireStep ==
    \/ ClientDials
    \/ accept
    \/ on_connected
    \/ on_connected_start
    \/ SkipFirst
    \/ ParseStart
    \/ ServerReads
    \/ ServerSendsAudio
    \/ ClientHears
    \/ ClientSendsAudio

WireNext == WireStep

WireSpec == WireStart /\ [][WireNext]_vars

\* Two sessions running at once.
PeersStart ==
    /\ IntakeStart
    /\ SessionInitFor("VoiceFlow")
    /\ WireIdle
    /\ PeersInit
    /\ VadIdle
    /\ ExtraIdle

PeersStep ==
    \/ \E s \in Sessions : PeerStarts(s)
    \/ \E s \in Sessions : PeerConnected(s)
    \/ \E s \in Sessions : PeerTurn(s)
    \/ \E s \in Sessions : PeerToolCall(s)
    \/ \E s \in Sessions : PeerRecords(s)
    \/ \E s \in Sessions : PeerCancelled(s)

PeersNext == PeersStep

PeersSpec == PeersStart /\ [][PeersNext]_vars

\* The boundary detector of either side over a stream of chunks.
VadStart ==
    /\ IntakeStart
    /\ SessionInitFor("VoiceFlow")
    /\ WireIdle
    /\ PeersIdle
    /\ VadInit
    /\ ExtraIdle

VadStep ==
    \/ SpeechChunk
    \/ SilentChunk

VadNext == VadStep

VadSpec == VadStart /\ [][VadNext]_vars

\* The intake server under any interleaving of requests.
RegistryStart ==
    /\ IntakeStart
    /\ SessionInitFor("MedFlow")
    /\ WireIdle
    /\ PeersIdle
    /\ VadIdle
    /\ RegistryInit
    /\ AroundIdle

RegistryStep ==
    \/ \E r \in StartRequests : start_agent(r)
    \/ \E r \in StartRequests : start_agent_room(r)
    \/ \E r \in StartRequests : start_agent_token(r)
    \/ \E p \in Spawned : BotExits(p)
    \/ \E pid \in Pids : get_status(pid)
    \/ cleanup

RegistryNext == RegistryStep

RegistrySpec == RegistryStart /\ [][RegistryNext]_vars

\* The configuration of a bot process for any command line and environment.
ConfigStart ==
    /\ IntakeStart
    /\ SessionInitFor("MedFlow")
    /\ WireIdle
    /\ PeersIdle
    /\ VadIdle
    /\ RegistryInit
    /\ AroundIdle

ConfigStep ==
    \/ BotStarts
    \/ configure
    \/ configure_returns
    \/ get_token_raises

ConfigNext == ConfigStep

ConfigSpec == ConfigStart /\ [][ConfigNext]_vars

\* Sessions that record and name their recordings.
RecordingsStart ==
    /\ IntakeStart
    /\ SessionInitFor("VoiceFlow")
    /\ WireIdle
    /\ PeersIdle
    /\ VadIdle
    /\ RegistryInit
    /\ AroundIdle

RecordingsStep ==
    \/ \E s \in Recorded : RecordingStarts(s)
    \/ \E s \in Recorded : RecordingGrows(s)
    \/ \E s \in Recorded : RecordingSaved(s)
    \/ Tick

RecordingsNext == RecordingsStep

RecordingsSpec == RecordingsStart /\ [][RecordingsNext]_vars

\* A run of the test client.
ClientsStart ==
    /\ IntakeStart
    /\ SessionInitFor("VoiceFlow")
    /\ WireIdle
    /\ PeersIdle
    /\ VadIdle
    /\ RegistryInit
    /\ AroundIdle

ClientsStep ==
    \/ main
    \/ \E c \in Clients : download_twiml(c)
    \/ \E c \in Clients : FrameArrives(c)
    \/ \E c \in Clients : ClientCallStarts(c)
    \/ \E c \in Clients : ClientCallReturns(c)
    \/ \E c \in Clients : ClientCallHangs(c)
    \/ \E c \in Clients : end_call(c)
    \/ \E c \in Clients : EndFrame(c)
    \/ \E c \in Clients : run_client_returns(c)
    \/ gather_returns
    \/ gather_raises

ClientsNext == ClientsStep

ClientsSpec == ClientsStart /\ [][ClientsNext]_vars

\* The event loop runs every task that is ready: the timer elapses, a stage
\* takes the frame at the head of its queue, a call that answers is
\* resumed, and a gather whose awaitables are done returns.
FairClientsSpec ==
    /\ ClientsSpec
    /\ WF_vars(main)
    /\ WF_vars(gather_returns)
    /\ WF_vars(gather_raises)
    /\ \A c \in Clients :
         /\ WF_vars(download_twiml(c))
         /\ WF_vars(ClientCallStarts(c))
         /\ WF_vars(ClientCallReturns(c))
         /\ WF_vars(end_call(c))
         /\ WF_vars(EndFrame(c))
         /\ WF_vars(run_client_returns(c))

FairSessionSpec ==
    /\ SessionSpec
    /\ WF_vars(on_client_disconnected)
    /\ WF_vars(CancelStep)
    /\ WF_vars(RunnerReturns)

---------------------------------------------------------------------------
(* Properties of the intake dialogue (specification Spec).                 *)

\* A step of the handler of the call in flight.
StepOfCall == call # NoCall /\ call' # call

\* A function call is dispatched to a handler.
Dispatched == call = NoCall /\ call' # NoCall

Mismatching(c) ==
    /\ c.name = "verify_birthday"
    /\ "birthday" \in DOMAIN c.args
    /\ c.args["birthday"] # ReferenceBirthday

Matching(c) ==
    /\ c.name = "verify_birthday"
    /\ "birthday" \in DOMAIN c.args
    /\ c.args["birthday"] = ReferenceBirthday

Malformed(c) == c # NoCall /\ ~WellFormed(c.name, c.args)

\* C1: the dialogue states visited follow the script: every step keeps the
\* state or moves to the next state of the script; no state is skipped and
\* no step goes backward.
C1_StatesFollowScript ==
    [][\/ DialogueState' = DialogueState
       \/ Rank(DialogueState') = Rank(DialogueState) + 1]_vars

\* C2: a function call is dispatched to a handler only if its name is in the
\* tool list installed in the context; the tool of a past or a later step is
\* not callable.
C2_DispatchedIsInstalled ==
    [][Dispatched => call'.name \in tools]_vars

\* C3: in AwaitingIdentity, the handling of a verify_birthday call whose
\* birthday differs from the reference leaves the dialogue state at
\* AwaitingIdentity and the tool list at verify_birthday.
C3_MismatchStays ==
    [][(Mismatching(call) /\ DialogueState = "AwaitingIdentity" /\ StepOfCall)
          => (DialogueState' = "AwaitingIdentity" /\ tools' = {"verify_birthday"})]_vars

\* A mismatching call was handled in AwaitingIdentity and has returned.
C3_Witness ==
    /\ last.name = "verify_birthday"
    /\ last.pc = "returned"
    /\ call = NoCall
    /\ messages = <<IntroMessage, RetryMessage>>
    /\ DialogueState = "AwaitingIdentity"

\* C4: the handling of a verify_birthday call that carries the reference
\* birthday installs list_prescriptions as the only tool and appends exactly
\* one message, the system instruction of the prescriptions step: the first
\* step of the handler installs the tool and appends nothing, its result
\* callback appends the one instruction, and the handler ends there.
C4_MatchAdvances ==
    [][(Matching(call) /\ StepOfCall)
          => /\ call.pc \in {"start", "result_callback"}
             /\ call.pc = "start"
                  => /\ tools' = {"list_prescriptions"}
                     /\ messages' = messages
                     /\ call'.pc = "result_callback"
             /\ call.pc = "result_callback"
                  => /\ tools' = {"list_prescriptions"}
                     /\ tools' = tools
                     /\ messages' = Append(messages, PrescriptionsMessage)
                     /\ call' = NoCall]_vars

\* A matching call was handled in AwaitingIdentity and has returned.
C4_Witness ==
    /\ last.name = "verify_birthday"
    /\ last.pc = "returned"
    /\ call = NoCall
    /\ messages = <<IntroMessage, PrescriptionsMessage>>
    /\ tools = {"list_prescriptions"}

\* The number of retry instructions in a transcript.
RECURSIVE Retries(_)
Retries(ms) ==
    IF ms = <<>>
    THEN 0
    ELSE Retries(Tail(ms)) + (IF Head(ms) = RetryMessage THEN 1 ELSE 0)

\* C28: an identity mismatch is recovered locally, without limit.  The
\* handling of a mismatching call ends by returning, never by raising, and
\* adds exactly one retry instruction to the transcript; and however many
\* retry instructions the transcript holds, a matching call in
\* AwaitingIdentity leads to CollectingPrescriptions.
C28_MismatchRetriesWithoutLimit ==
    /\ [][(Mismatching(call) /\ StepOfCall)
            => /\ Retries(messages') =
                    Retries(messages) + (IF call' = NoCall THEN 1 ELSE 0)
               /\ Len(messages') = Len(messages) + (IF call' = NoCall THEN 1 ELSE 0)
               /\ call' = NoCall => last'.pc = "returned"]_vars
    /\ [][(/\ Matching(call)
           /\ call.pc = "start"
           /\ StepOfCall
           /\ DialogueState = "AwaitingIdentity"
           /\ Retries(messages) >= 0)
            => DialogueState' = "CollectingPrescriptions"]_vars

\* After two mismatching calls a matching call has advanced the dialogue.
C28_Witness ==
    /\ messages = <<IntroMessage, RetryMessage, RetryMessage, PrescriptionsMessage>>
    /\ tools = {"list_prescriptions"}
    /\ last.name = "verify_birthday"
    /\ last.pc = "returned"

\* C5: once Complete is reached the tool list is empty and stays empty, and
\* no further function call is dispatched to a handler.
C5_CompleteIsFinal ==
    [][DialogueState = "Complete"
          => (DialogueState' = "Complete" /\ tools' = {} /\ ~Dispatched)]_vars

\* The instruction that goes with a tool list is among the messages ms.
Instructed(ts, ms) ==
    \E i \in 1..Len(ms) :
        CASE ts = {"verify_birthday"} -> ms[i] \in {IntroMessage, RetryMessage}
          [] ts = {"list_prescriptions"} -> ms[i] = PrescriptionsMessage
          [] ts = {"list_allergies"} -> ms[i] = AllergiesMessage
          [] ts = {"list_conditions"} -> ms[i] = ConditionsMessage
          [] ts = {"list_visit_reasons"} -> ms[i] = VisitReasonsMessage
          [] ts = {} -> ms[i] = ConcludeMessage
          [] OTHER -> FALSE

\* C6: a transition is one update for the language model: the context a
\* generation request has read never holds a tool list without the
\* instruction of its step.
C6_GenerationSeesWholeTransition ==
    gen.active => Instructed(gen.tools, SubSeq(messages, 1, gen.len))

\* C11: the context handed to the language model stage with a frame is a
\* copy: the generation request that takes the frame reads the tool list and
\* the messages as they were when the frame was queued, whatever was
\* installed or appended since.
C11_SnapshotIsCopy ==
    [][(~gen.active /\ gen'.active)
          => (gen'.tools = Head(handed).tools /\ gen'.len = Head(handed).len)]_vars

\* A whole message: a role and a content.
WholeMessage(m) == DOMAIN m = {"role", "content"}

\* C24: the transcript is append-only and ordered, and a snapshot holds, in
\* insertion order, every message appended before it was taken.  A step
\* keeps the messages there are as a prefix and adds at most one, whole,
\* message at the end; the context a generation request reads holds all
\* the messages of the transcript at that moment, which include the ones
\* that were there when its frame was queued.
C24_TranscriptAppendOnly ==
    [][/\ messages' # messages
            => /\ Len(messages') = Len(messages) + 1
               /\ messages' = Append(messages, messages'[Len(messages')])
               /\ WholeMessage(messages'[Len(messages')])
       /\ (~gen.active /\ gen'.active)
            => (gen'.len = Len(messages) /\ gen'.len >= Head(handed).len)]_vars

\* A generation request reads a transcript of the greeting, an utterance
\* and an instruction appended since.
C24_Witness ==
    /\ gen.active
    /\ gen.len = Len(messages)
    /\ Len(messages) >= 3
    /\ \E k \in 1..Len(messages) : messages[k] = UserMessage

\* A handler goes on to hand one instruction to the context.
Clarifies(c) == c.pc = "result_callback" /\ ~c.none /\ Len(c.result) = 1

\* C7: the handling of a call with malformed arguments (its parameter is
\* missing) does not advance: the tool list is unchanged and the handler
\* hands a clarification instruction to the context.
C7_MalformedIsClarified ==
    [][(Malformed(call) /\ call.pc = "start" /\ StepOfCall)
          => (tools' = tools /\ Clarifies(call'))]_vars

\* The handlers of the collection steps.
CollectionFunctions == RegisteredFunctions \ {"verify_birthday"}

Collecting(c) == c.name \in CollectionFunctions

\* The tool and the instruction that follow each collection step in the script.
NextTools(name) ==
    CASE name = "list_prescriptions" -> {"list_allergies"}
      [] name = "list_allergies" -> {"list_conditions"}
      [] name = "list_conditions" -> {"list_visit_reasons"}
      [] name = "list_visit_reasons" -> {}

NextInstruction(name) ==
    CASE name = "list_prescriptions" -> AllergiesMessage
      [] name = "list_allergies" -> ConditionsMessage
      [] name = "list_conditions" -> VisitReasonsMessage
      [] name = "list_visit_reasons" -> ConcludeMessage

\* C12: in a collection step the data is handed to the persistence sink
\* exactly once, and that has happened before the transition of the step
\* (tool swap, new instruction) takes effect.
C12_SavedBeforeTransition ==
    [][(Collecting(call) /\ StepOfCall)
          => /\ (tools' # tools \/ messages' # messages) => call.logged = 1
             /\ (call' = NoCall /\ last'.pc = "returned") => call.logged = 1]_vars

\* C13: when the persistence sink fails in a collection step, the failure
\* leaves the handler and the dialogue has not advanced: the tool list is
\* the tool of the step whose data was not saved.
C13_SinkFailureDoesNotAdvance ==
    [][(Collecting(call) /\ call.pc = "save_data" /\ call' = NoCall)
          => /\ last'.pc = "raised"
             /\ tools' = {call.name}
             /\ DialogueState' = StateOfTools({call.name})]_vars

\* C14: the handling of a collection call passes None to the result callback
\* (nothing is added to the context, the model is not prompted by the
\* result) and prompts the model exactly once, with a context that holds the
\* instruction of the next question.
C14_SuppressedAndPromptedOnce ==
    [][(Collecting(call) /\ StepOfCall)
          => /\ call.pc \in {"start", "queue_frame", "save_data", "result_callback"}
             /\ call.pc = "start"
                  => /\ call'.pc = "queue_frame"
                     /\ llmQueue' = llmQueue
                     /\ messages'[Len(messages')] = NextInstruction(call.name)
             /\ call.pc = "queue_frame"
                  => /\ call'.pc = "save_data"
                     /\ llmQueue' = llmQueue + 1
                     /\ handed' = Append(handed, ViewOf(tools, messages))
                     /\ \E i \in 1..Len(messages) :
                            messages[i] = NextInstruction(call.name)
                     /\ messages' = messages
             /\ call.pc = "save_data"
                  => /\ call' = NoCall \/ (call'.pc = "result_callback" /\ call'.none)
                     /\ llmQueue' = llmQueue
                     /\ messages' = messages
             /\ call.pc = "result_callback"
                  => /\ call.none
                     /\ call' = NoCall
                     /\ llmQueue' = llmQueue
                     /\ messages' = messages]_vars

\* A list_prescriptions call has been handled and has returned.
C14_Witness ==
    /\ last = Ended([name |-> "list_prescriptions"], "returned", 1)
    /\ call = NoCall
    /\ tools = {"list_allergies"}
    /\ messages[Len(messages)] = AllergiesMessage

\* C15: a well-formed call of the tool of a collection step advances the
\* dialogue by exactly one state: the first step of its handler installs
\* exactly the tool of the next step (none after list_visit_reasons) and
\* appends exactly one system message, and no later step of the handler
\* changes the tool list or the messages.
C15_CollectionAdvancesOneState ==
    [][(Collecting(call) /\ WellFormed(call.name, call.args) /\ StepOfCall)
          => IF call.pc = "start"
             THEN tools = {call.name}
                    => /\ tools' = NextTools(call.name)
                       /\ Rank(DialogueState') = Rank(DialogueState) + 1
                       /\ messages' = Append(messages, NextInstruction(call.name))
             ELSE tools' = tools /\ messages' = messages]_vars

\* The script was followed to its end with well-formed calls.
C15_Witness ==
    /\ last = Ended([name |-> "list_visit_reasons"], "returned", 1)
    /\ call = NoCall
    /\ DialogueState = "Complete"
    /\ messages = <<IntroMessage, PrescriptionsMessage, AllergiesMessage,
                    ConditionsMessage, VisitReasonsMessage, ConcludeMessage>>

\* The tool list the first step of the handler of call c installs, if any.
Installs(c) ==
    IF c.name = "verify_birthday" THEN {"list_prescriptions"} ELSE NextTools(c.name)

\* C16: at most one tool is installed in every reachable state, and an
\* install replaces the tool list: after a handler has installed a tool
\* list, the context holds that list and nothing of the previous one.
C16_OneToolReplaced ==
    /\ [](Cardinality(tools) <= 1)
    /\ [][(StepOfCall /\ call.pc = "start" /\ (Collecting(call) \/ Matching(call)))
             => tools' = Installs(call)]_vars

\* list_conditions was installed over list_allergies.
C16_Witness ==
    /\ last.name = "list_allergies"
    /\ last.pc = "returned"
    /\ tools = {"list_conditions"}

\* C17: the tool list and the dialogue state change only in the first step
\* of the handler of a function call; the connect event, caller turns,
\* generation requests and agent replies leave both unchanged.
C17_OnlyToolCallsChangeState ==
    [][(tools' # tools \/ DialogueState' # DialogueState)
          => (StepOfCall /\ call.pc = "start")]_vars

\* Connect event, caller turn and agent reply have happened without a call.
C17_Witness ==
    /\ joined
    /\ turns = 1
    /\ last = NoLast
    /\ call = NoCall
    /\ messages[Len(messages)] = AssistantMessage
    /\ DialogueState = "AwaitingIdentity"

\* C18: until the connect event the session rests in AwaitingIdentity with
\* verify_birthday as the only tool and one system message in its context,
\* and no generation has been requested; the connect event happens once and
\* queues exactly one frame, with that context.
C18_SessionStart ==
    /\ [](~joined => /\ DialogueState = "AwaitingIdentity"
                     /\ tools = {"verify_birthday"}
                     /\ messages = <<IntroMessage>>
                     /\ llmQueue = 0
                     /\ ~gen.active
                     /\ call = NoCall)
    /\ [][IF joined' # joined
          THEN /\ llmQueue' = 1
               /\ handed' = <<ViewOf({"verify_birthday"}, <<IntroMessage>>)>>
               /\ tools' = tools /\ messages' = messages
          ELSE joined' = joined]_vars
    /\ [][joined => joined']_vars

\* The opening turn has been requested after the connect event.
C18_Witness ==
    /\ joined
    /\ turns = 0
    /\ gen = [active |-> TRUE, tools |-> {"verify_birthday"}, len |-> 1]
    /\ messages = <<IntroMessage>>

---------------------------------------------------------------------------
(* Properties of the session life cycle (SessionSpec, FairSessionSpec).    *)

AllStopped == cancelAt = NumStages

\* Queues, recording buffer and transport handle are released.
Released ==
    /\ runner = "returned"
    /\ handle = "released"
    /\ buffered = <<>>
    /\ \A i \in 1..NumStages : inbox[i] = 0 /\ calling[i] = "no"

SomeCallHung == \E i \in 1..NumStages : calling[i] = "hung"

\* C8: in either application, once the caller has disconnected and the
\* handlers of the disconnect event have run, cancellation of the session's
\* pipeline task has been requested.
C8_DisconnectRequestsCancel ==
    (transport = "disconnected" /\ DisconnectEvent(app) \notin events)
        => cancelRequested

\* C9: a session cancelled between the start and the end of an utterance is
\* torn down: every stage stops, the run returns and queues, recording
\* buffer and transport handle are released.
C9_CancelMidUtteranceTearsDown ==
    (cancelRequested /\ speaking) ~> (AllStopped /\ Released)

\* A session cancelled in the middle of an utterance has been torn down.
C9_Witness ==
    /\ cancelRequested
    /\ speaking
    /\ AllStopped
    /\ Released

\* C19: the cancel frame overtakes queued work.  A stage the cancel frame
\* has reached takes no frame any more, the frames that were queued at it
\* are never delivered, and the cancel frame goes on to the next stage
\* whatever is queued or in progress: it reaches the last stage.
C19_CancelOvertakesQueuedFrames ==
    /\ [][\A i \in 1..NumStages :
             i <= cancelAt' => /\ delivered'[i] = delivered[i]
                               /\ fifo'[i] = <<>>
                               /\ held'[i] = 0]_vars
    /\ [][cancelAt' # cancelAt => cancelAt' = cancelAt + 1]_vars
    /\ cancelRequested ~> AllStopped

\* The cancel frame has reached the last stage, and a frame the pipeline was
\* given has never reached that stage.
C19_Witness ==
    /\ AllStopped
    /\ produced > delivered[NumStages]
    /\ \E i \in 1..NumStages : delivered[i] > delivered[NumStages]

\* C20: no stage reorders frames: the frames a stage takes never go back in
\* the order in which the pipeline was given them, although a stage may hand
\* on several frames for one it took.
C20_FramesKeepOrder ==
    [][\A i \in 1..NumStages : delivered'[i] >= delivered[i]]_vars

\* The last stage has taken the first frame, and a stage has taken the second
\* frame and handed on two frames for it.
C20_Witness ==
    /\ delivered[NumStages] = 1
    /\ \E i \in 2..NumStages : fifo[i] = <<2, 2>> /\ delivered[i - 1] = 2

\* Frame f is in queue q.
Queued(f, q) == \E k \in 1..Len(q) : q[k] = f

\* Frame f has reached stage i or is on its way to it.
OnItsWay(f, i) ==
    \/ delivered[i] >= f
    \/ \E j \in 1..i : Queued(f, fifo[j])
    \/ \E j \in 1..(i - 1) : held[j] = f

FlushStep ==
    /\ app = "VoiceFlow"
    /\ cancelAt < Index("audiobuffer")
    /\ cancelAt' = Index("audiobuffer")

\* C22: when a session ends the recording buffer is flushed exactly once,
\* and a file is written exactly when the flushed buffer is not empty.  The
\* stop of the audio buffer happens once (stages stop in order, one by
\* one), it empties the buffer and writes the buffered audio as one file if
\* there is any and no file otherwise, files are written in no other step,
\* the buffer stays empty afterwards, and a session that has returned has
\* been through the flush.
C22_FlushedOnceFileIffAudio ==
    /\ [][cancelAt' >= cancelAt /\ cancelAt' <= cancelAt + 1]_vars
    /\ [][FlushStep => /\ buffered' = <<>>
                       /\ files' = IF Len(buffered) >= 1
                                   THEN Append(files, buffered)
                                   ELSE files]_vars
    /\ [][files' # files => FlushStep]_vars
    /\ []((app = "VoiceFlow" /\ cancelAt >= Index("audiobuffer"))
            => buffered = <<>>)
    /\ []((app = "VoiceFlow" /\ runner = "returned")
            => cancelAt >= Index("audiobuffer"))

\* A VoiceFlow session has ended and its recording was written as one file.
C22_Witness ==
    /\ app = "VoiceFlow"
    /\ runner = "returned"
    /\ Len(files) = 1
    /\ buffered = <<>>

\* C23: the flushed recording holds the audio frames the agent emitted, in
\* the order of their emission: every frame of a written file has passed
\* the output transport, and the frames of a file are in the order in which
\* they were produced and sent.
C23_RecordingInEmissionOrder ==
    \A k \in 1..Len(files) :
        /\ \A a \in 1..Len(files[k]) : delivered[Index("output")] >= files[k][a]
        /\ \A a, b \in 1..Len(files[k]) : a < b => files[k][a] <= files[k][b]

\* A recording of two different frames has been written.
C23_Witness ==
    \E k \in 1..Len(files) :
        /\ Len(files[k]) >= 2
        /\ files[k][1] < files[k][Len(files[k])]

\* C30 as stated: the reply is merged into the context before it is
\* synthesized and sent, so every frame the output transport has taken has
\* been taken by the assistant aggregator before.
C30_ReplyMergedBeforeSent ==
    delivered[Index("assistant_aggregator")] >= delivered[Index("output")]

\* C30: the stage list is fixed and is the order in which frames traverse
\* the stages, and the assistant aggregator comes after synthesis and the
\* output transport: a reply is merged into the context only after the
\* generation stage, the synthesis stage and the output transport have
\* taken it, in that order.
C30_ReplySentBeforeMerged ==
    /\ \A i, j \in 1..NumStages : i < j => delivered[i] >= delivered[j]
    /\ delivered[Index("llm")] >= delivered[Index("tts")]
    /\ delivered[Index("tts")] >= delivered[Index("output")]
    /\ delivered[Index("output")] >= delivered[Index("assistant_aggregator")]

\* A reply has passed the output transport and reached the assistant
\* aggregator.
C30_Witness ==
    /\ delivered[Index("assistant_aggregator")] >= 1
    /\ delivered[Index("output")] >= 1

\* C26: the socket session follows the wire order handshake, session
\* start, audio.  The test client sends its connected message first, its
\* start message second, with the identifiers of its serializer, and audio
\* after them; the endpoint never fails on what it reads, it has read no
\* message but the first two when the pipeline starts, and the pipeline is
\* started at most once, exactly once when it runs, with the identifiers
\* the second message carries.
C26_HandshakeThenStartThenAudio ==
    /\ \A k \in 1..Len(sent) :
          /\ k = 1 => sent[k].event = "connected"
          /\ k = 2 => sent[k] = StartMsg(serializer.streamSid, serializer.callSid)
          /\ k > 2 => sent[k].event = "media"
    /\ spc # "raised"
    /\ starts <= 1
    /\ consumed <= 2
    /\ spc = "running" <=> starts = 1
    /\ starts = 1
         => /\ consumed = 2
            /\ session = sent[2].start
            /\ session = serializer

\* The pipeline runs with the identifiers of the client, here two different
\* ones, and the client has sent audio after its two handshake messages.
C26_Witness ==
    /\ spc = "running"
    /\ starts = 1
    /\ session = [streamSid |-> 1, callSid |-> 2]
    /\ Len(sent) >= 3

\* What a session has of its own: dialogue state, context, tools and
\* recording buffer.
PeerView(t) ==
    IF tasks[t] = "none"
    THEN [state |-> "none", context |-> NoContext, audio |-> <<>>]
    ELSE [state |-> StateOfTools(contexts[locals[t].context].tools),
          context |-> contexts[locals[t].context],
          audio |-> audiobuffers[locals[t].audiobuffer].audio]

\* C27: sessions share no mutable state.  With two sessions running at
\* once, a step of one session (its start, an appended message, a tool
\* call that installs a schema, recorded audio, a cancel) leaves the
\* dialogue state, the context with its tools and the recording buffer of
\* the other session as they were, and the two sessions never hold the same
\* object.
C27_SessionsShareNothing ==
    /\ [][\A t \in Sessions : t # actor' => PeerView(t)' = PeerView(t)]_vars
    /\ [](\A s, t \in Sessions :
            (s # t /\ tasks[s] # "none" /\ tasks[t] # "none")
                => /\ locals[s].context # locals[t].context
                   /\ locals[s].audiobuffer # locals[t].audiobuffer)

\* A MedFlow session that has advanced and a VoiceFlow session that has
\* recorded audio run at once, the last step being one of the first.
C27_Witness ==
    /\ appOf = [s \in Sessions |-> IF s = "first" THEN "MedFlow" ELSE "VoiceFlow"]
    /\ tasks = [s \in Sessions |-> "running"]
    /\ PeerView("first").state = "CollectingPrescriptions"
    /\ Len(PeerView("second").audio) >= 1
    /\ actor = "first"

\* C29: the boundary detector emits a start on the first speech chunk after
\* silence and an end only once the trailing silence exceeds the threshold,
\* which is the design default of 1.0 second in the configuration of the
\* server and of the test client; markers alternate, beginning with a
\* start, and one silent chunk inside speech emits no end.
C29_EndAfterOneSecondOfSilence ==
    /\ [](\A k \in 1..Len(markers) :
            markers[k] = IF k % 2 = 1 THEN "start" ELSE "end")
    /\ [][(vadState = "quiet" /\ silence' = 0 /\ vadState' = "speaking")
            => markers' = Append(markers, "start")]_vars
    /\ [][(Len(markers') > Len(markers) /\ vadState' = "quiet")
            => silence + ChunkTenths > DesignStopSecs]_vars
    /\ [][(vadState = "speaking" /\ silence = 0 /\ silence' > 0)
            => markers' = markers]_vars

\* C31: every invocation of a tool handler calls the result callback
\* exactly once, on every path and for any arguments: when the handling of
\* a call ends, its result callback has run once, and it never runs a
\* second time for the same call.
C31_CallbackExactlyOnce ==
    [][/\ (call # NoCall /\ call' = NoCall) => last'.callbacks = 1
       /\ call' # NoCall => call'.callbacks = 0]_vars

\* C32: after any interleaving of start-session requests the number of
\* running bot processes registered for one room URL never exceeds
\* MAX_BOTS_PER_ROOM.
C32_AtMostOneBotPerRoom ==
    \A url \in Rooms : num_bots_in_room(url) <= MAX_BOTS_PER_ROOM

\* C33: a start-session request registers a bot process only after it has
\* obtained both the room URL and the token: the registry changes only in
\* the step that ends a request successfully, and the new entry carries the
\* room URL of that request; a request that ends with an error (no room
\* URL, room full, no token, spawn failed) leaves the registry unchanged.
C33_RegistersOnlyWithUrlAndToken ==
    [][/\ bot_procs' # bot_procs =>
            \E r \in StartRequests :
                /\ reqs[r].pc = "get_token"
                /\ reqs'[r].pc = "done"
                /\ reqs'[r].url \in Rooms
                /\ reqs'[r].token # NoToken
                /\ \E pid \in Pids :
                     /\ bot_procs' = [bot_procs EXCEPT ![pid] = bot_procs'[pid]]
                     /\ bot_procs'[pid].url = reqs'[r].url
                     /\ bot_procs'[pid].proc = Len(procs')
                     /\ Len(procs') = Len(procs) + 1
       /\ \A r \in StartRequests :
            (reqs[r].pc # "error" /\ reqs'[r].pc = "error") =>
                bot_procs' = bot_procs
       /\ \A r \in StartRequests :
            (reqs[r].pc # "done" /\ reqs'[r].pc = "done") =>
                bot_procs' # bot_procs]_vars

\* A request has failed at the token or the spawn while the bot of an
\* earlier request is registered.
C33_Witness ==
    \E r, q \in StartRequests :
        /\ reqs[r].pc = "done"
        /\ reqs[q].pc = "error"
        /\ reqs[q].url \in Rooms
        /\ \E pid \in Pids : bot_procs[pid].url = reqs[r].url

\* C34: the registry never loses a bot: while the server is up every
\* spawned process is the registered process of its process id; a status
\* query answers not-found only for an id no process was registered under,
\* and otherwise running exactly while the process has not exited; after
\* the cleanup at shutdown no spawned process is running.
C34_RegistryNeverLosesABot ==
    /\ [](\A p \in 1..Len(procs) : bot_procs[procs[p].pid].proc = p)
    /\ [][server'.answer # server.answer =>
            LET pid == server'.answer.pid
                spawned == {p \in 1..Len(procs) : procs[p].pid = pid}
            IN  /\ server'.answer.status = "not_found" <=> spawned = {}
                /\ server'.answer.status = "running" <=>
                       \E p \in spawned : Running(p)]_vars
    /\ [](~server.up => \A p \in 1..Len(procs) : ~Running(p))

\* C35: configure returns (room URL, token) only when both the URL and the
\* API key were resolved, each from the command line when given there and
\* otherwise from the environment; a missing URL is reported before a
\* missing key, and in either of these error cases no token is requested.
C35_ConfigureResolvesOrRaises ==
    LET ArgOrEnv(a, e) == IF a \notin {None, ""} THEN a ELSE e
        url == ArgOrEnv(config.argUrl, config.envUrl)
        key == ArgOrEnv(config.argKey, config.envKey)
        missing(x) == x \in {None, ""}
    IN  /\ config.pc = "returned" =>
              /\ ~missing(url) /\ ~missing(key)
              /\ config.url = url /\ config.key = key
              /\ config.result = <<url, "token">>
              /\ config.token_requests = 1
        /\ config.pc = "get_token" =>
              /\ ~missing(url) /\ ~missing(key)
              /\ config.url = url /\ config.key = key
        /\ (config.pc \in {"raised", "get_token", "returned"} /\ missing(url)) =>
              config.pc = "raised" /\ config.error = "no_url"
        /\ (config.pc \in {"raised", "get_token", "returned"}
              /\ ~missing(url) /\ missing(key)) =>
              config.pc = "raised" /\ config.error = "no_key"
        /\ config.error \in {"no_url", "no_key"} => config.token_requests = 0
        /\ config.pc # "returned" => config.result = <<>>

\* configure has returned with the room URL of the command line, although
\* the environment names one too, and with the key of the environment.
C35_Witness ==
    /\ config.pc = "returned"
    /\ config.argUrl = "url-arg"
    /\ config.envUrl = "url-env"
    /\ config.argKey = None
    /\ config.result = <<"url-arg", "token">>
    /\ config.key = "key-env"

\* C36: every session of the test client terminates: the end frame is
\* queued behind the frames that are pending, the recording is flushed once
\* when the pipeline run ends and never otherwise, a client returns only
\* after its run has ended, main is over only after every session has
\* ended, none cut off, and every session that runs does end and return.
C36_EveryClientSessionTerminates ==
    /\ [][\A c \in Clients :
            /\ (clients[c].timer = "sleeping" /\ clients'[c].timer = "done") =>
                   clients'[c].queue = Append(clients[c].queue, "end")
            /\ clients'[c].flushes # clients[c].flushes =>
                   /\ clients[c].run = "running"
                   /\ clients'[c].run = "ended"
                   /\ clients'[c].flushes = 1]_vars
    /\ [](\A c \in Clients :
            /\ clients[c].run = "ended" => clients[c].flushes = 1
            /\ clients[c].pc = "returned" =>
                   clients[c].run = "ended" /\ clients[c].timer = "done")
    /\ [](mainpc \in {"completed", "raised"} =>
            \A c \in Clients : clients[c].pc \in {"returned", "raised"})
    /\ \A c \in Clients :
          (clients[c].pc = "running") ~> (clients[c].pc = "returned")

\* C37: recording filenames are session-scoped: two different sessions that
\* flush recordings that are not empty never write to the same filename.
C37_FilenamesSessionScoped ==
    \A s, t \in Recorded :
        (s # t /\ recs[s].file # NoFile /\ recs[t].file # NoFile) =>
            recs[s].file # recs[t].file

\* C10: with an external call that never returns, a session whose caller has
\* disconnected does not come to rest before its pipeline run has returned.
C10_HungCallDoesNotBlockTeardown ==
    (SomeCallHung /\ transport = "disconnected")
        => (runner = "returned" \/ ENABLED SessionNext)

=============================================================================
